---- MODULE Spec2Model ----
(***************************************************************************)
(* A model of the two game engines of the repository:                      *)
(*   - src/Gomoku.py: ConnectFiveBoard, the five-in-a-row grid with its    *)
(*     undo list and its Zobrist hash;                                     *)
(*   - src/ConnectFourUtility.py: Board, the bit-packed connect-four state *)
(*     and its transitions, and AI, the Monte-Carlo tree search over it;   *)
(*   - src/Gomoku.py: ConnectFiveEngine, the iterated deepening alpha-beta *)
(*     search over the grid, with its transposition table.                 *)
(* Each part has its own specification (SpecGrid, SpecBoard, SpecAI,       *)
(* SpecEngine); the variables of the parts a specification does not        *)
(* exercise stay idle.                                                     *)
(***************************************************************************)
EXTENDS Integers, Sequences, FiniteSets, TLC

VARIABLES
    \* ConnectFiveBoard (src/Gomoku.py)
    size,          \* self.size
    board,         \* self.board: [row][col] -> "X", "O" or NoPiece
    undoStack,     \* self.undoStack: sequence of <<row, col, piece>>
    hashKey,       \* self.hashKey
    squareValue,   \* self.squareValue: [row][col][0 or 1] -> number
    emptyKey,      \* the value hashKey was given by __init__ (history)
    lastCall,      \* the last call made on the grid, its arguments and result
    pre,           \* the grid (board, undoStack, hashKey) before that call
    mark,          \* the grid before a placePiece that undoMove just undid
    \* Board (src/ConnectFourUtility.py)
    state,         \* the connect-four state <<mask 1, mask 2, turn>>
    mirror,        \* the state reached by the left-right mirrored moves
    window,        \* the columns the explored game is played in
    \* AI (src/ConnectFourUtility.py)
    states,        \* self.states: the history of root states
    plays,         \* self.plays
    wins,          \* self.wins, counted in halves (a draw adds 0.5)
    maxDepth,      \* self.maxDepth
    pc,            \* the position of getNextMoves: "idle" or "simulating"
    ret,           \* what the getNextMoves call that just ended returned
    snap,          \* states, plays, wins and sims when getNextMoves was entered
    sims,          \* the number of runSimulation calls made so far
    lastSim,       \* the playout of the runSimulation call that just ended
    \* ConnectFiveEngine (src/Gomoku.py)
    table,         \* self.game.table: hashKey -> <<depth, row, col, evaluation>>
    searchDepth,   \* self.depth
    moveOrder,     \* the order in which a set of moves is iterated
    budget         \* the placements the explored game may still make

gridVars == <<size, board, undoStack, hashKey, squareValue, emptyKey, lastCall, pre, mark>>
boardVars == <<state, mirror, window>>
aiVars == <<states, plays, wins, maxDepth, pc, ret, snap, sims, lastSim>>
engineVars == <<table, searchDepth, moveOrder, budget>>
vars == <<gridVars, boardVars, aiVars, engineVars>>

(***************************************************************************)
(* Bounds of the exploration.                                              *)
(***************************************************************************)
\* Pieces on the five-in-a-row grid.
MaxPieces == 3
\* Width in bits of the numbers randrange draws for the hash (64 in the code).
HashBits == 4
\* Number of sample squareValue tables.
NumTables == 2
\* Sizes of the grid (the size parameter of ConnectFiveBoard, 15 by default).
GridSizes == {2}

(***************************************************************************)
(* Numbers as the code uses them.                                          *)
(***************************************************************************)
RECURSIVE Pow2(_)
Pow2(n) == IF n = 0 THEN 1 ELSE 2 * Pow2(n - 1)

\* Python's a ^ b on non-negative integers, four bits at a time.
RECURSIVE XOR(_, _)
XOR(a, b) ==
    IF a = 0 THEN b
    ELSE IF b = 0 THEN a
    ELSE LET Bit(i) == ((((a \div i) % 2) + ((b \div i) % 2)) % 2) * i
         IN  Bit(1) + Bit(2) + Bit(4) + Bit(8) + 16 * XOR(a \div 16, b \div 16)

(***************************************************************************)
(* ConnectFiveBoard: the grid, the undo list and the hash.                 *)
(***************************************************************************)
NoPiece == "None"
Pieces == {"X", "O"}
NoGrid == [none |-> TRUE]
NoCall == [name |-> "none"]

Rows(sz) == 0 .. (sz - 1)

\* limit = 2 ** 64, here 2 ** HashBits.
limit == Pow2(HashBits)

\* One sample of the table of random numbers __init__ draws, and of the key.
SampleSquareValue(sz, t) ==
    [r \in Rows(sz) |-> [c \in Rows(sz) |-> [k \in {0, 1} |->
        (((2 * t - 1) * (2 * (r * sz + c) + k)) + t - 1) % limit]]]

SampleHashKey(t) == (5 * t) % limit

\* The index 0 if piece == "X" else 1.
PieceIndex(piece) == IF piece = "X" THEN 0 ELSE 1

Grid == [board |-> board, undoStack |-> undoStack, hashKey |-> hashKey]

EmptyBoard(sz) == [r \in Rows(sz) |-> [c \in Rows(sz) |-> NoPiece]]

Occupied(b) == {rc \in Rows(size) \X Rows(size) : b[rc[1]][rc[2]] # NoPiece}

\* isLegalMove(row, col), with the cell's content not looked at.
IsLegalMoveNoEmptyCheck(g, row, col) ==
    0 <= row /\ row < size /\ 0 <= col /\ col < size

\* isLegalMove(row, col)
IsLegalMove(g, row, col) ==
    0 <= row /\ row < size /\ 0 <= col /\ col < size
        /\ g.board[row][col] = NoPiece

\* placePiece(row, col, piece)
PlacePieceFn(g, row, col, piece) ==
    [board |-> [g.board EXCEPT ![row][col] = piece],
     undoStack |-> Append(g.undoStack, <<row, col, piece>>),
     hashKey |-> XOR(g.hashKey, squareValue[row][col][PieceIndex(piece)])]

\* undoMove(), with hashKey left as it is.
UndoMoveFnKeepsKey(g) ==
    LET top == g.undoStack[Len(g.undoStack)]
    IN  [board |-> [g.board EXCEPT ![top[1]][top[2]] = NoPiece],
         undoStack |-> SubSeq(g.undoStack, 1, Len(g.undoStack) - 1),
         hashKey |-> g.hashKey]

\* undoMove(), with the cell left as it is.
UndoMoveFnNoClear(g) ==
    LET top == g.undoStack[Len(g.undoStack)]
    IN  [board |-> g.board,
         undoStack |-> SubSeq(g.undoStack, 1, Len(g.undoStack) - 1),
         hashKey |-> XOR(g.hashKey, squareValue[top[1]][top[2]][PieceIndex(top[3])])]

\* undoMove()
UndoMoveFn(g) ==
    LET top == g.undoStack[Len(g.undoStack)]
    IN  [board |-> [g.board EXCEPT ![top[1]][top[2]] = NoPiece],
         undoStack |-> SubSeq(g.undoStack, 1, Len(g.undoStack) - 1),
         hashKey |-> XOR(g.hashKey, squareValue[top[1]][top[2]][PieceIndex(top[3])])]

\* userPlacePiece(row, col, piece): the grid after the call, and its result.
UserPlacePieceFn(g, row, col, piece) ==
    IF IsLegalMove(g, row, col) /\ (piece = "X" \/ piece = "O")
    THEN [grid |-> [board |-> [g.board EXCEPT ![row][col] = piece],
                    undoStack |-> Append(g.undoStack, <<row, col, piece>>),
                    hashKey |-> XOR(g.hashKey, squareValue[row][col][PieceIndex(piece)])],
          result |-> TRUE]
    ELSE [grid |-> g, result |-> FALSE]

\* userUndoMove(): pops two entries and updates the hash twice; the board is
\* not written.
UserUndoMoveFn(g) ==
    IF Len(g.undoStack) >= 2
    THEN LET n == Len(g.undoStack)
             first == g.undoStack[n]
             second == g.undoStack[n - 1]
             h1 == XOR(g.hashKey, squareValue[first[1]][first[2]][PieceIndex(first[3])])
             h2 == XOR(h1, squareValue[second[1]][second[2]][PieceIndex(second[3])])
         IN  [board |-> g.board,
              undoStack |-> SubSeq(g.undoStack, 1, n - 2),
              hashKey |-> h2]
    ELSE g

SetGrid(g) ==
    /\ board' = g.board
    /\ undoStack' = g.undoStack
    /\ hashKey' = g.hashKey

GridIdle ==
    /\ size = 0
    /\ board = <<>>
    /\ undoStack = <<>>
    /\ hashKey = 0
    /\ squareValue = <<>>
    /\ emptyKey = 0
    /\ lastCall = NoCall
    /\ pre = NoGrid
    /\ mark = NoGrid

GridInit ==
    \E sz \in GridSizes, t \in 1 .. NumTables :
        /\ size = sz
        /\ board = EmptyBoard(sz)
        /\ undoStack = <<>>
        /\ hashKey = SampleHashKey(t)
        /\ squareValue = SampleSquareValue(sz, t)
        /\ emptyKey = SampleHashKey(t)
        /\ lastCall = NoCall
        /\ pre = NoGrid
        /\ mark = NoGrid

\* The AI's placePiece: called on an empty cell of the board.
PlacePiece ==
    \E row \in Rows(size), col \in Rows(size), piece \in Pieces :
        /\ board[row][col] = NoPiece
        /\ Cardinality(Occupied(board)) < MaxPieces
        /\ SetGrid(PlacePieceFn(Grid, row, col, piece))
        /\ lastCall' = [name |-> "placePiece", row |-> row, col |-> col,
                        piece |-> piece, result |-> TRUE]
        /\ pre' = Grid
        /\ mark' = NoGrid
        /\ UNCHANGED <<size, squareValue, emptyKey>>

\* The AI's undoMove: called when a move is on the undo list.
UndoMove ==
    /\ undoStack # <<>>
    /\ SetGrid(UndoMoveFn(Grid))
    /\ lastCall' = [name |-> "undoMove", row |-> 0, col |-> 0,
                    piece |-> NoPiece, result |-> TRUE]
    /\ pre' = Grid
    /\ mark' = IF lastCall.name = "placePiece" THEN pre ELSE NoGrid
    /\ UNCHANGED <<size, squareValue, emptyKey>>

UserPlacePiece ==
    \E row \in -1 .. size, col \in -1 .. size, piece \in Pieces \cup {"Z"} :
        LET r == UserPlacePieceFn(Grid, row, col, piece)
        IN  /\ r.result => Cardinality(Occupied(board)) < MaxPieces
            /\ SetGrid(r.grid)
            /\ lastCall' = [name |-> "userPlacePiece", row |-> row, col |-> col,
                            piece |-> piece, result |-> r.result]
            /\ pre' = Grid
            /\ mark' = NoGrid
            /\ UNCHANGED <<size, squareValue, emptyKey>>

UserUndoMove ==
    /\ SetGrid(UserUndoMoveFn(Grid))
    /\ lastCall' = [name |-> "userUndoMove", row |-> 0, col |-> 0,
                    piece |-> NoPiece, result |-> TRUE]
    /\ pre' = Grid
    /\ mark' = NoGrid
    /\ UNCHANGED <<size, squareValue, emptyKey>>

(***************************************************************************)
(* Board: the connect-four state. A bit mask (a Python integer of any      *)
(* size) is the set of the positions of its 1 bits; bit 6 * col + row is   *)
(* the cell of column col, row row (row 0 at the bottom).                  *)
(***************************************************************************)
ROWCOUNT == 6
COLUMNCOUNT == 7

\* m << s, m >> s, a & b, a | b, a ^ b
Shl(m, s) == {i + s : i \in m}
Shr(m, s) == {i - s : i \in {j \in m : j >= s}}
BitAnd(a, b) == a \cap b
BitOr(a, b) == a \cup b
BitXor(a, b) == (a \ b) \cup (b \ a)

\* 4398046511103 = 2^42 - 1
boardMask == 0 .. 41
\* 63
colMask == 0 .. 5
\* 69810262081
rowMask == {0, 6, 12, 18, 24, 30, 36}
\* (34630287489, 541098242, 8454660, 2216338399296, 1108169199616, 554084597760)
leftMask ==
    << {0, 7, 14, 21, 28, 35}, {1, 8, 15, 22, 29}, {2, 9, 16, 23},
       {6, 13, 20, 27, 34, 41}, {12, 19, 26, 33, 40}, {18, 25, 32, 39} >>
\* (1108378656, 17318416, 270600, 70936233984, 141872463872, 283744665600)
rightMask ==
    << {5, 10, 15, 20, 25, 30}, {4, 9, 14, 19, 24}, {3, 8, 13, 18},
       {11, 16, 21, 26, 31, 36}, {17, 22, 27, 32, 37}, {23, 28, 33, 38} >>

\* start()
Start == <<{}, {}, 1>>

\* updateState(state, col) without the ^ opponentMask.
UpdateStateNoXor(st, col) ==
    LET playerIndex == st[3] - 1
        opponentIndex == 1 - playerIndex
        shift == ROWCOUNT * col
        cMask == Shl(colMask, shift)
        playerMask == BitAnd(st[playerIndex + 1], cMask)
        opponentMask == BitAnd(st[opponentIndex + 1], cMask)
        curr == BitOr(playerMask, opponentMask)
        new == BitOr(Shl(curr, 1), Shl({0}, shift))
        playerCol == BitOr(st[playerIndex + 1], new)
    IN  IF playerIndex = 0
        THEN <<playerCol, st[2], 3 - st[3]>>
        ELSE <<st[1], playerCol, 3 - st[3]>>

\* updateState(state, col) without the | (1 << shift).
UpdateStateNoBottomBit(st, col) ==
    LET playerIndex == st[3] - 1
        opponentIndex == 1 - playerIndex
        shift == ROWCOUNT * col
        cMask == Shl(colMask, shift)
        playerMask == BitAnd(st[playerIndex + 1], cMask)
        opponentMask == BitAnd(st[opponentIndex + 1], cMask)
        curr == BitOr(playerMask, opponentMask)
        new == BitXor(Shl(curr, 1), opponentMask)
        playerCol == BitOr(st[playerIndex + 1], new)
    IN  IF playerIndex = 0
        THEN <<playerCol, st[2], 3 - st[3]>>
        ELSE <<st[1], playerCol, 3 - st[3]>>

\* updateState(state, col)
UpdateState(st, col) ==
    LET playerIndex == st[3] - 1
        opponentIndex == 1 - playerIndex
        shift == ROWCOUNT * col
        cMask == Shl(colMask, shift)
        playerMask == BitAnd(st[playerIndex + 1], cMask)
        opponentMask == BitAnd(st[opponentIndex + 1], cMask)
        curr == BitOr(playerMask, opponentMask)
        new == BitXor(BitOr(Shl(curr, 1), Shl({0}, shift)), opponentMask)
        playerCol == BitOr(st[playerIndex + 1], new)
    IN  IF playerIndex = 0
        THEN <<playerCol, st[2], 3 - st[3]>>
        ELSE <<st[1], playerCol, 3 - st[3]>>

\* isColumnFull(state, col)
IsColumnFull(st, col) ==
    LET mask == Shl(colMask, ROWCOUNT * col)
    IN  BitAnd(BitOr(st[1], st[2]), mask) = mask

\* getLegalMoves(state): the columns that are not full, in increasing order.
GetLegalMoves(st) ==
    SelectSeq([i \in 1 .. COLUMNCOUNT |-> i - 1], LAMBDA col : ~IsColumnFull(st, col))

\* isLegalMove(state, col)
BoardIsLegalMove(st, col) ==
    0 <= col /\ col < COLUMNCOUNT /\ ~IsColumnFull(st, col)

\* isBoardFull(state)
IsBoardFull(st) == BitOr(st[1], st[2]) = boardMask

\* hasColWinner(playerMask) with the last column left out of the loop.
HasColWinnerSkipLast(playerMask) ==
    \E col \in 0 .. (COLUMNCOUNT - 2) :
        LET cMask == BitAnd(playerMask, Shl(colMask, ROWCOUNT * col))
        IN  BitAnd(BitAnd(cMask, Shl(cMask, 1)),
                   BitAnd(Shl(cMask, 2), Shl(cMask, 3))) # {}

\* hasColWinner(playerMask)
HasColWinner(playerMask) ==
    \E col \in 0 .. (COLUMNCOUNT - 1) :
        LET cMask == BitAnd(playerMask, Shl(colMask, ROWCOUNT * col))
        IN  BitAnd(BitAnd(cMask, Shl(cMask, 1)),
                   BitAnd(Shl(cMask, 2), Shl(cMask, 3))) # {}

\* hasRowWinner(playerMask)
HasRowWinner(playerMask) ==
    \E row \in 0 .. (ROWCOUNT - 1) :
        LET rMask == BitAnd(playerMask, Shl(rowMask, row))
        IN  BitAnd(BitAnd(rMask, Shl(rMask, ROWCOUNT)),
                   BitAnd(Shl(rMask, ROWCOUNT * 2), Shl(rMask, ROWCOUNT * 3))) # {}

\* hasDiagonalWinner(playerMask) with the right diagonals shifted like the
\* left ones.
HasDiagonalWinnerSameShift(playerMask) ==
    \/ \E k \in 1 .. Len(leftMask) :
        LET lMask == BitAnd(playerMask, leftMask[k])
        IN  BitAnd(BitAnd(lMask, Shl(lMask, COLUMNCOUNT)),
                   BitAnd(Shl(lMask, COLUMNCOUNT * 2), Shl(lMask, COLUMNCOUNT * 3))) # {}
    \/ \E k \in 1 .. Len(rightMask) :
        LET rMask == BitAnd(playerMask, rightMask[k])
        IN  BitAnd(BitAnd(rMask, Shl(rMask, COLUMNCOUNT)),
                   BitAnd(Shl(rMask, COLUMNCOUNT * 2), Shl(rMask, COLUMNCOUNT * 3))) # {}

\* hasDiagonalWinner(playerMask)
HasDiagonalWinner(playerMask) ==
    LET inc == ROWCOUNT - 1
    IN  \/ \E k \in 1 .. Len(leftMask) :
            LET lMask == BitAnd(playerMask, leftMask[k])
            IN  BitAnd(BitAnd(lMask, Shl(lMask, COLUMNCOUNT)),
                       BitAnd(Shl(lMask, COLUMNCOUNT * 2), Shl(lMask, COLUMNCOUNT * 3))) # {}
        \/ \E k \in 1 .. Len(rightMask) :
            LET rMask == BitAnd(playerMask, rightMask[k])
            IN  BitAnd(BitAnd(rMask, Shr(rMask, inc)),
                       BitAnd(Shr(rMask, inc * 2), Shr(rMask, inc * 3))) # {}

\* hasWinner(state): state[2 - state[2]] is the mask of the player who just
\* moved.
HasWinner(st) ==
    LET mask == st[(2 - st[3]) + 1]
    IN  IF HasRowWinner(mask) \/ HasColWinner(mask) \/ HasDiagonalWinner(mask)
        THEN 3 - st[3]
        ELSE 0

\* The explored games: each is played in a window of adjacent columns. A game
\* in a window of four columns has at most MaxMoves moves; a game confined to
\* two columns is played until both are full.
MaxMoves == 10
Windows ==
    {lo .. (lo + 3) : lo \in 0 .. (COLUMNCOUNT - 4)}
        \cup {lo .. (lo + 1) : lo \in 0 .. (COLUMNCOUNT - 2)}

BoardInit ==
    \E w \in Windows :
        /\ state = Start
        /\ mirror = Start
        /\ window = w

\* The game's loop: a column is played when isLegalMove accepts it.
Play ==
    \E col \in window :
        /\ BoardIsLegalMove(state, col)
        /\ \/ Cardinality(state[1]) + Cardinality(state[2]) < MaxMoves
           \/ Cardinality(window) = 2
        /\ state' = UpdateState(state, col)
        /\ mirror' = UpdateState(mirror, COLUMNCOUNT - 1 - col)
        /\ UNCHANGED window

(***************************************************************************)
(* AI: the Monte-Carlo tree search over Board.                             *)
(*                                                                         *)
(* wins is counted in halves (a draw adds 0.5, a win 1), so that plays and *)
(* wins are integers. The wall clock of getNextMoves is not modelled: its  *)
(* loop runs one or more simulations and then stops. The UCT score uses    *)
(* sqrt and log, which TLC does not have: the arg max over the children is *)
(* any child that no other child beats for every exploration constant      *)
(* (a higher win rate with no more plays).                                 *)
(***************************************************************************)
\* Simulations over the whole run, root states fed to the AI, and the
\* maxDepth of the instances built with a short playout.
MaxSims == 4
MaxHistory == 3
ShortDepth == 2
\* maxDepth = kwarg.get("maxDepth", 50)
DefaultMaxDepth == 50

NoReturn == [kind |-> "pending", col |-> 0]
NoSnap == [none |-> TRUE]
NoSim == [none |-> TRUE]
NoState == <<>>

RECURSIVE PlayMoves(_, _)
\* The state after the moves of the sequence, played from state st.
PlayMoves(st, moves) ==
    IF moves = <<>> THEN st
    ELSE PlayMoves(UpdateState(st, Head(moves)), Tail(moves))

\* Positions late in a game, each reached from start() by legal moves with no
\* winner on the way: one column left; two columns left and the player to move
\* loses whatever is played; two columns left and every outcome possible;
\* three columns left.
RootOneColumnAfter10 ==
    PlayMoves(Start, <<3, 4, 4, 6, 0, 3, 5, 2, 6, 5>>)
RootOneColumnAfter20 ==
    PlayMoves(RootOneColumnAfter10, <<0, 6, 5, 0, 3, 6, 5, 6, 1, 3>>)
RootOneColumnAfter30 ==
    PlayMoves(RootOneColumnAfter20, <<1, 3, 6, 5, 2, 0, 5, 3, 4, 4>>)
RootOneColumn ==
    PlayMoves(RootOneColumnAfter30, <<0, 1, 1, 1, 0, 1, 4, 2, 4, 2>>)
RootLostAfter10 ==
    PlayMoves(Start, <<5, 3, 2, 6, 5, 1, 0, 2, 2, 6>>)
RootLostAfter20 ==
    PlayMoves(RootLostAfter10, <<0, 5, 6, 6, 4, 2, 1, 5, 1, 3>>)
RootLostAfter30 ==
    PlayMoves(RootLostAfter20, <<6, 0, 5, 1, 2, 6, 3, 1, 0, 1>>)
RootLost ==
    PlayMoves(RootLostAfter30, <<4, 2, 0, 3, 5, 4, 3, 3, 4, 4>>)
RootOpenAfter10 ==
    PlayMoves(Start, <<2, 5, 2, 2, 2, 3, 4, 4, 4, 3>>)
RootOpenAfter20 ==
    PlayMoves(RootOpenAfter10, <<5, 2, 0, 6, 5, 6, 3, 3, 3, 2>>)
RootOpenAfter30 ==
    PlayMoves(RootOpenAfter20, <<1, 5, 3, 1, 5, 6, 5, 1, 0, 4>>)
RootOpen ==
    PlayMoves(RootOpenAfter30, <<4, 1, 4, 0, 1, 0, 0, 0>>)
RootThreeAfter10 ==
    PlayMoves(Start, <<3, 2, 6, 6, 1, 2, 2, 3, 6, 5>>)
RootThreeAfter20 ==
    PlayMoves(RootThreeAfter10, <<4, 5, 4, 2, 6, 2, 4, 0, 2, 5>>)
RootThreeAfter30 ==
    PlayMoves(RootThreeAfter20, <<5, 4, 0, 6, 1, 0, 4, 1, 5, 6>>)
RootThree ==
    PlayMoves(RootThreeAfter30, <<1, 4, 0, 1, 0, 3, 0, 3, 3>>)
SampleRoots == {RootOneColumn, RootLost, RootOpen, RootThree}

Root == states[Len(states)]

\* [self.board.updateState(state, move) for move in legal]
NextStates(st) ==
    LET legal == GetLegalMoves(st)
    IN  [i \in 1 .. Len(legal) |-> UpdateState(st, legal[i])]

SeqRange(q) == {q[i] : i \in 1 .. Len(q)}

\* plays and wins as a playout sees them: the store, and the state the playout
\* has inserted with zero counts.
Stored(st, inserted) == st \in DOMAIN plays \/ (inserted # NoState /\ st = inserted)
PlaysOf(st, inserted) == IF st \in DOMAIN plays THEN plays[st] ELSE 0
WinsOf(st, inserted) == IF st \in DOMAIN wins THEN wins[st] ELSE 0

\* The children the max over the UCT scores may return.
UCTChoices(children, inserted) ==
    {c \in children :
        ~\E d \in children :
            /\ WinsOf(d, inserted) * PlaysOf(c, inserted)
                   > WinsOf(c, inserted) * PlaysOf(d, inserted)
            /\ PlaysOf(d, inserted) <= PlaysOf(c, inserted)}

\* The playouts runSimulation can make from state st at iteration `depth` of
\* its loop: the states chosen in order (each with the branch that chose it
\* and whether it was in the store then), the state inserted, the winner, the
\* draw flag, and whether the UCT score divided by zero or took log(0).
RECURSIVE Playouts(_, _, _, _)
Playouts(st, depth, path, inserted) ==
    IF depth >= maxDepth
    THEN {[path |-> path, inserted |-> inserted, win |-> 0, draw |-> FALSE, error |-> FALSE]}
    ELSE
    LET legal == GetLegalMoves(st)
        nextStates == NextStates(st)
        children == SeqRange(nextStates)
        allStored == \A pos \in children : Stored(pos, inserted)
        undefined ==
            /\ allStored
            /\ \E pos \in children : PlaysOf(pos, inserted) = 0
        choices == IF allStored THEN UCTChoices(children, inserted) ELSE children
    IN  IF Len(legal) = 0
        THEN {[path |-> path, inserted |-> inserted, win |-> 0, draw |-> TRUE, error |-> FALSE]}
        ELSE IF undefined
        THEN {[path |-> path, inserted |-> inserted, win |-> 0, draw |-> FALSE, error |-> TRUE]}
        ELSE UNION {
            LET wasStored == Stored(next, inserted)
                ins == IF inserted = NoState /\ ~wasStored THEN next ELSE inserted
                step == [state |-> next, uct |-> allStored, wasStored |-> wasStored]
                win == HasWinner(next)
            IN  IF win # 0
                THEN {[path |-> Append(path, step), inserted |-> ins, win |-> win,
                       draw |-> FALSE, error |-> FALSE]}
                ELSE Playouts(next, depth + 1, Append(path, step), ins)
            : next \in choices}

Visited(sim) == {sim.path[i].state : i \in 1 .. Len(sim.path)}

\* PlaysAfter with every visited state put into the store.
PlaysAfterAllVisited(sim) ==
    LET keys == DOMAIN plays \cup Visited(sim)
    IN  [pos \in keys |->
            IF pos \in Visited(sim) /\ ~sim.error
            THEN PlaysOf(pos, sim.inserted) + 1
            ELSE PlaysOf(pos, sim.inserted)]

\* PlaysAfter with the inserted state left out of the back-propagation.
PlaysAfterNotInserted(sim) ==
    LET keys == DOMAIN plays \cup (IF sim.inserted = NoState THEN {} ELSE {sim.inserted})
    IN  [pos \in keys |->
            IF pos \in Visited(sim) /\ ~sim.error /\ pos \in DOMAIN plays
            THEN PlaysOf(pos, sim.inserted) + 1
            ELSE PlaysOf(pos, sim.inserted)]

\* plays and wins after the expansion and the back-propagation of a playout.
PlaysAfter(sim) ==
    LET keys == DOMAIN plays \cup (IF sim.inserted = NoState THEN {} ELSE {sim.inserted})
    IN  [pos \in keys |->
            IF pos \in Visited(sim) /\ ~sim.error
            THEN PlaysOf(pos, sim.inserted) + 1
            ELSE PlaysOf(pos, sim.inserted)]

\* WinsAfter crediting the player to move in a state, not the one who moved
\* into it.
WinsAfterWrongMover(sim) ==
    LET keys == DOMAIN wins \cup (IF sim.inserted = NoState THEN {} ELSE {sim.inserted})
    IN  [pos \in keys |->
            IF pos \in Visited(sim) /\ ~sim.error
            THEN IF sim.draw
                 THEN WinsOf(pos, sim.inserted) + 1
                 ELSE IF pos[3] = sim.win
                      THEN WinsOf(pos, sim.inserted) + 2
                      ELSE WinsOf(pos, sim.inserted)
            ELSE WinsOf(pos, sim.inserted)]

\* WinsAfter counting a playout that used up maxDepth as a draw.
WinsAfterCutOffAsDraw(sim) ==
    LET keys == DOMAIN wins \cup (IF sim.inserted = NoState THEN {} ELSE {sim.inserted})
    IN  [pos \in keys |->
            IF pos \in Visited(sim) /\ ~sim.error
            THEN IF sim.draw \/ sim.win = 0
                 THEN WinsOf(pos, sim.inserted) + 1
                 ELSE IF 3 - pos[3] = sim.win
                      THEN WinsOf(pos, sim.inserted) + 2
                      ELSE WinsOf(pos, sim.inserted)
            ELSE WinsOf(pos, sim.inserted)]

WinsAfter(sim) ==
    LET keys == DOMAIN wins \cup (IF sim.inserted = NoState THEN {} ELSE {sim.inserted})
    IN  [pos \in keys |->
            IF pos \in Visited(sim) /\ ~sim.error
            THEN IF sim.draw
                 THEN WinsOf(pos, sim.inserted) + 1
                 ELSE IF 3 - pos[3] = sim.win
                      THEN WinsOf(pos, sim.inserted) + 2
                      ELSE WinsOf(pos, sim.inserted)
            ELSE WinsOf(pos, sim.inserted)]

\* The loop of getNextMoves over the legal moves, from index i on: nextMove
\* and highestWinRate (num / den) so far.
RECURSIVE SelectMove(_, _, _, _, _, _)
SelectMove(st, legal, i, nextMove, num, den) ==
    IF i > Len(legal) THEN nextMove
    ELSE LET nextState == UpdateState(st, legal[i])
             w == IF nextState \in DOMAIN wins THEN wins[nextState] ELSE 0
             p == IF nextState \in DOMAIN plays THEN plays[nextState] ELSE 1
         IN  IF p = 0
             THEN [kind |-> "ZeroDivisionError", col |-> 0]
             ELSE IF w * den > num * p
                  THEN SelectMove(st, legal, i + 1, [kind |-> "column", col |-> legal[i]], w, p)
                  ELSE SelectMove(st, legal, i + 1, nextMove, num, den)

AIInit ==
    \E d \in {ShortDepth, DefaultMaxDepth} :
        /\ states = <<>>
        /\ plays = <<>>
        /\ wins = <<>>
        /\ maxDepth = d
        /\ pc = "idle"
        /\ ret = NoReturn
        /\ snap = NoSnap
        /\ sims = 0
        /\ lastSim = NoSim

\* updateStates(state): the caller feeds a position of a game, then the
\* positions that follow it move by move; what is not a tuple is ignored.
UpdateStates ==
    /\ pc = "idle"
    /\ \E isTuple \in BOOLEAN :
        IF isTuple
        THEN /\ Len(states) < MaxHistory
             /\ \E st \in (IF states = <<>> THEN SampleRoots
                                             ELSE SeqRange(NextStates(Root))) :
                    states' = Append(states, st)
        ELSE states' = states
    /\ ret' = NoReturn
    /\ lastSim' = NoSim
    /\ UNCHANGED <<plays, wins, maxDepth, pc, snap, sims>>

\* getNextMoves() with the test for a single legal move left out.
GetNextMovesEnterNoShortcut ==
    /\ pc = "idle"
    /\ states # <<>>
    /\ LET legal == GetLegalMoves(Root)
       IN  IF Len(legal) = 0
           THEN /\ ret' = [kind |-> "False", col |-> 0]
                /\ pc' = "idle"
           ELSE /\ sims < MaxSims
                /\ ret' = NoReturn
                /\ pc' = "simulating"
    /\ snap' = [states |-> states, plays |-> plays, wins |-> wins, sims |-> sims]
    /\ lastSim' = NoSim
    /\ UNCHANGED <<states, plays, wins, maxDepth, sims>>

\* getNextMoves() with the test for no legal move left out.
GetNextMovesEnterNoDrawCheck ==
    /\ pc = "idle"
    /\ states # <<>>
    /\ LET legal == GetLegalMoves(Root)
       IN  IF Len(legal) = 1
           THEN /\ ret' = [kind |-> "column", col |-> legal[1]]
                /\ pc' = "idle"
           ELSE /\ sims < MaxSims
                /\ ret' = NoReturn
                /\ pc' = "simulating"
    /\ snap' = [states |-> states, plays |-> plays, wins |-> wins, sims |-> sims]
    /\ lastSim' = NoSim
    /\ UNCHANGED <<states, plays, wins, maxDepth, sims>>

\* getNextMoves() up to its loop: it returns at once when no or one legal
\* move is left, and starts the clock otherwise.
GetNextMovesEnter ==
    /\ pc = "idle"
    /\ states # <<>>
    /\ LET legal == GetLegalMoves(Root)
       IN  IF Len(legal) = 0
           THEN /\ ret' = [kind |-> "False", col |-> 0]
                /\ pc' = "idle"
           ELSE IF Len(legal) = 1
           THEN /\ ret' = [kind |-> "column", col |-> legal[1]]
                /\ pc' = "idle"
           ELSE /\ sims < MaxSims
                /\ ret' = NoReturn
                /\ pc' = "simulating"
    /\ snap' = [states |-> states, plays |-> plays, wins |-> wins, sims |-> sims]
    /\ lastSim' = NoSim
    /\ UNCHANGED <<states, plays, wins, maxDepth, sims>>

\* runSimulation(), called by the loop of getNextMoves.
RunSimulation ==
    /\ pc = "simulating"
    /\ sims < MaxSims
    /\ \E sim \in Playouts(Root, 0, <<>>, NoState) :
        /\ plays' = PlaysAfter(sim)
        /\ wins' = WinsAfter(sim)
        /\ lastSim' = sim
    /\ sims' = sims + 1
    /\ UNCHANGED <<states, maxDepth, pc, ret, snap>>

\* getNextMoves() after its loop: the clock has run out, the best move is
\* selected and returned.
GetNextMovesSelect ==
    /\ pc = "simulating"
    /\ sims > snap.sims
    /\ ret' = SelectMove(Root, GetLegalMoves(Root), 1, [kind |-> "None", col |-> 0], 0, 1)
    /\ pc' = "idle"
    /\ lastSim' = NoSim
    /\ UNCHANGED <<states, plays, wins, maxDepth, snap, sims>>

(***************************************************************************)
(* ConnectFiveEngine: the alpha-beta search over the grid. Scores are      *)
(* counted in halves (the code has 12.5, 7.5 and 0.5), float("inf") is a   *)
(* number above every score, and a row or column that is None is NoMove.   *)
(* default_timer() is modelled by the number of times the search has read  *)
(* the clock: the time limit is over from the read numbered `deadline` on. *)
(* A set of moves is iterated in row-major order, forwards or backwards.   *)
(***************************************************************************)
Halves(x) == 2 * x

\* float("inf"), in halves
Inf == 2000000000
\* None as a row or a column
NoMove == -1
\* No time limit falls within the search.
NoDeadline == -1

\* self.combinationScore[(count, blockedEnds, turn == piece)], 0 for a key
\* that is not in the table.
CombinationScore(count, blockedEnds, mine) ==
    IF count = 5 /\ blockedEnds \in {0, 1, 2} THEN Halves(200000000)
    ELSE IF count = 4 /\ blockedEnds = 0 THEN (IF mine THEN Halves(100000000) ELSE Halves(50000000))
    ELSE IF count = 4 /\ blockedEnds = 1 THEN (IF mine THEN Halves(100000000) ELSE Halves(50))
    ELSE IF count = 3 /\ blockedEnds = 0 THEN (IF mine THEN Halves(10000) ELSE Halves(50))
    ELSE IF count = 3 /\ blockedEnds = 1 THEN (IF mine THEN 25 ELSE 15)
    ELSE IF count = 2 /\ blockedEnds = 0 THEN (IF mine THEN 15 ELSE Halves(5))
    ELSE IF count = 2 /\ blockedEnds = 1 THEN Halves(2)
    ELSE IF count = 1 /\ blockedEnds = 0 THEN Halves(1)
    ELSE IF count = 1 /\ blockedEnds = 1 THEN 1
    ELSE 0

\* getHeuristicScore(sequence, turn): the loop from `index` (0-based) on.
RECURSIVE GetHeuristicScoreFrom(_, _, _, _, _, _)
GetHeuristicScoreFrom(sequence, turn, index, count, total, piece) ==
    IF index >= Len(sequence) THEN total
    ELSE
    LET square == sequence[index + 1]
    IN  IF square = piece
        THEN IF piece = NoPiece
             THEN GetHeuristicScoreFrom(sequence, turn, index + 1, count, total, piece)
             ELSE GetHeuristicScoreFrom(sequence, turn, index + 1, count + 1, total, piece)
        ELSE
        LET start == index - count - 1
            right == IF square # NoPiece \/ index >= Len(sequence) - 1 THEN 1 ELSE 0
            left == IF start < 0 THEN 1
                    ELSE IF sequence[start + 1] # NoPiece THEN 1 ELSE 0
            score == CombinationScore(count, right + left, turn = piece)
            newTotal == IF piece # NoPiece /\ count > 0
                        THEN (IF piece = "X" THEN total + score ELSE total - score)
                        ELSE total
        IN  GetHeuristicScoreFrom(sequence, turn, index + 1,
                                  IF square = NoPiece THEN 0 ELSE 1, newTotal, square)

GetHeuristicScore(sequence, turn) ==
    GetHeuristicScoreFrom(sequence, turn, 0, 0, 0, NoPiece)

\* The sum of the numbers of a sequence.
RECURSIVE SumSeq(_)
SumSeq(q) == IF q = <<>> THEN 0 ELSE Head(q) + SumSeq(Tail(q))

\* Sequences are 1-based: a Python list of the grid is shifted by one.
RowSeq(b, row) == [i \in 1 .. size |-> b[row][i - 1]]

\* getColumn(col)
GetColumn(b, col) ==
    [i \in 1 .. (size + 1) |-> IF i <= size THEN b[i - 1][col] ELSE NoPiece]

\* getLeftDiagonal(row, col)
GetLeftDiagonal(b, row, col) ==
    LET n == size - (IF row > col THEN row ELSE col)
    IN  [i \in 1 .. (n + 1) |-> IF i <= n THEN b[row + i - 1][col + i - 1] ELSE NoPiece]

\* getRightDiagonal(row, col)
GetRightDiagonal(b, row, col) ==
    LET n == IF col = 0 THEN row + 1 ELSE size - col
    IN  [i \in 1 .. (n + 1) |-> IF i <= n THEN b[row - (i - 1)][col + i - 1] ELSE NoPiece]

\* horizontalHeuristic(turn)
HorizontalHeuristic(b, turn) ==
    SumSeq([i \in 1 .. size |->
        GetHeuristicScore(Append(RowSeq(b, i - 1), NoPiece), turn)])

\* verticalHeuristic(turn)
VerticalHeuristic(b, turn) ==
    SumSeq([i \in 1 .. size |-> GetHeuristicScore(GetColumn(b, i - 1), turn)])

\* leftDiagonalHeuristic(turn)
LeftDiagonalHeuristic(b, turn) ==
    LET endRow == size - 5 + 1
        startingSquares == [i \in 1 .. endRow |-> <<i - 1, 0>>]
                               \o [i \in 1 .. (endRow - 1) |-> <<0, i>>]
    IN  SumSeq([i \in 1 .. Len(startingSquares) |->
            GetHeuristicScore(
                GetLeftDiagonal(b, startingSquares[i][1], startingSquares[i][2]), turn)])

\* rightDiagonalHeuristic(turn)
RightDiagonalHeuristic(b, turn) ==
    LET initialRow == 5 - 1
        endColumn == size - 5 + 1
        startingSquares == [i \in 1 .. (size - initialRow) |-> <<initialRow + i - 1, 0>>]
                               \o [i \in 1 .. (endColumn - 1) |-> <<size - 1, i>>]
    IN  SumSeq([i \in 1 .. Len(startingSquares) |->
            GetHeuristicScore(
                GetRightDiagonal(b, startingSquares[i][1], startingSquares[i][2]), turn)])

\* overallHeuristicScore(turn)
OverallHeuristicScore(b, turn) ==
    HorizontalHeuristic(b, turn) + LeftDiagonalHeuristic(b, turn)
        + VerticalHeuristic(b, turn) + RightDiagonalHeuristic(b, turn)

Min2(a, b) == IF a < b THEN a ELSE b
Min3(a, b, c) == Min2(a, Min2(b, c))
OnGrid(row, col) == 0 <= row /\ row < size /\ 0 <= col /\ col < size

\* The loop the four has...Combination methods share: the cells
\* (row + inc * dr, col + inc * dc) for inc from `inc` up to hi - 1, with the
\* count of consecutive pieces so far. The two ends of a found run are the
\* cell `criteria` steps back and the cell one step on.
RECURSIVE HasCombinationFrom(_, _, _, _, _, _, _, _, _, _, _)
HasCombinationFrom(b, row, col, dr, dc, inc, hi, piece, criteria, blockedEnds, consecutive) ==
    IF inc >= hi THEN FALSE
    ELSE
    LET thisRow == row + inc * dr
        thisCol == col + inc * dc
        opponent == IF piece = "O" THEN "X" ELSE "O"
        backRow == thisRow - criteria * dr
        backCol == thisCol - criteria * dc
        back == OnGrid(backRow, backCol) /\ b[backRow][backCol] # opponent
        on == OnGrid(thisRow + dr, thisCol + dc) /\ b[thisRow + dr][thisCol + dc] # opponent
    IN  IF b[thisRow][thisCol] = piece
        THEN IF consecutive + 1 = criteria
                  /\ (\/ blockedEnds = 2
                      \/ (blockedEnds = 1 /\ (back \/ on))
                      \/ (back /\ on))
             THEN TRUE
             ELSE HasCombinationFrom(b, row, col, dr, dc, inc + 1, hi, piece,
                                     criteria, blockedEnds, consecutive + 1)
        ELSE HasCombinationFrom(b, row, col, dr, dc, inc + 1, hi, piece,
                                criteria, blockedEnds, 0)

\* hasRowCombination(row, col, piece, criteria, blockedEnds)
HasRowCombination(b, row, col, piece, criteria, blockedEnds) ==
    HasCombinationFrom(b, row, col, 0, 1,
        0 - Min2(col, criteria - 1), Min2(size - col, criteria),
        piece, criteria, blockedEnds, 0)

\* hasColCombination(row, col, piece, criteria, blockedEnds)
HasColCombination(b, row, col, piece, criteria, blockedEnds) ==
    HasCombinationFrom(b, row, col, 1, 0,
        0 - Min2(row, criteria - 1), Min2(size - row, criteria),
        piece, criteria, blockedEnds, 0)

\* hasLeftDiagonalCombination(row, col, piece, criteria, blockedEnds)
HasLeftDiagonalCombination(b, row, col, piece, criteria, blockedEnds) ==
    HasCombinationFrom(b, row, col, 1, 1,
        0 - Min3(row, col, criteria - 1), Min3(size - row, size - col, criteria),
        piece, criteria, blockedEnds, 0)

\* hasRightDiagonalCombination(row, col, piece, criteria, blockedEnds)
HasRightDiagonalCombination(b, row, col, piece, criteria, blockedEnds) ==
    HasCombinationFrom(b, row, col, 1, -1,
        0 - Min3(row, size - col - 1, criteria - 1), Min3(size - row, col + 1, criteria),
        piece, criteria, blockedEnds, 0)

\* selfHasFour(), satisfied by four with both ends blocked as well.
SelfHasFourBlocked(g) ==
    /\ Len(g.undoStack) > 8
    /\ LET second == g.undoStack[Len(g.undoStack) - 1]
           row == second[1]
           col == second[2]
           piece == second[3]
       IN  \/ HasRowCombination(g.board, row, col, piece, 4, 2)
           \/ HasColCombination(g.board, row, col, piece, 4, 2)
           \/ HasLeftDiagonalCombination(g.board, row, col, piece, 4, 2)
           \/ HasRightDiagonalCombination(g.board, row, col, piece, 4, 2)

\* selfHasFour()
SelfHasFour(g) ==
    /\ Len(g.undoStack) > 8
    /\ LET second == g.undoStack[Len(g.undoStack) - 1]
           row == second[1]
           col == second[2]
           piece == second[3]
       IN  \/ HasRowCombination(g.board, row, col, piece, 4, 1)
           \/ HasColCombination(g.board, row, col, piece, 4, 1)
           \/ HasLeftDiagonalCombination(g.board, row, col, piece, 4, 1)
           \/ HasRightDiagonalCombination(g.board, row, col, piece, 4, 1)

\* hasWinner() of the grid
GridHasWinner(g) ==
    /\ g.undoStack # <<>>
    /\ LET last == g.undoStack[Len(g.undoStack)]
           row == last[1]
           col == last[2]
           piece == last[3]
       IN  \/ HasRowCombination(g.board, row, col, piece, 5, 2)
           \/ HasColCombination(g.board, row, col, piece, 5, 2)
           \/ HasLeftDiagonalCombination(g.board, row, col, piece, 5, 2)
           \/ HasRightDiagonalCombination(g.board, row, col, piece, 5, 2)

\* isBoardEmpty()
IsBoardEmpty(g) == \A r \in Rows(size), c \in Rows(size) : g.board[r][c] = NoPiece

\* isBoardFull() of the grid
GridIsBoardFull(g) == \A r \in Rows(size), c \in Rows(size) : g.board[r][c] # NoPiece

NoQuickMove == [status |-> FALSE, row |-> NoMove, col |-> NoMove]

\* The loop the four findQuick...Move methods share (see HasCombinationFrom).
RECURSIVE FindQuickFrom(_, _, _, _, _, _, _, _, _)
FindQuickFrom(b, row, col, dr, dc, inc, hi, piece, consecutive) ==
    IF inc >= hi THEN NoQuickMove
    ELSE
    LET thisRow == row + inc * dr
        thisCol == col + inc * dc
        backRow == thisRow - 4 * dr
        backCol == thisCol - 4 * dc
    IN  IF b[thisRow][thisCol] = piece
        THEN IF consecutive + 1 = 4
                  /\ OnGrid(backRow, backCol) /\ b[backRow][backCol] = NoPiece
             THEN [status |-> TRUE, row |-> backRow, col |-> backCol]
             ELSE IF consecutive + 1 = 4
                  /\ OnGrid(thisRow + dr, thisCol + dc)
                  /\ b[thisRow + dr][thisCol + dc] = NoPiece
             THEN [status |-> TRUE, row |-> thisRow + dr, col |-> thisCol + dc]
             ELSE FindQuickFrom(b, row, col, dr, dc, inc + 1, hi, piece, consecutive + 1)
        ELSE FindQuickFrom(b, row, col, dr, dc, inc + 1, hi, piece, 0)

\* findQuickRowMove(row, col, piece)
FindQuickRowMove(b, row, col, piece) ==
    FindQuickFrom(b, row, col, 0, 1, 0 - Min2(col, 3), Min2(size - col, 4), piece, 0)

\* findQuickColMove(row, col, piece)
FindQuickColMove(b, row, col, piece) ==
    FindQuickFrom(b, row, col, 1, 0, 0 - Min2(row, 3), Min2(size - row, 4), piece, 0)

\* findQuickLeftDiagonalMove(row, col, piece)
FindQuickLeftDiagonalMove(b, row, col, piece) ==
    FindQuickFrom(b, row, col, 1, 1,
        0 - Min3(row, col, 3), Min3(size - row, size - col, 4), piece, 0)

\* findQuickRightDiagonalMove(row, col, piece)
FindQuickRightDiagonalMove(b, row, col, piece) ==
    FindQuickFrom(b, row, col, 1, -1,
        0 - Min3(row, size - col - 1, 3), Min3(size - row, col + 1, 4), piece, 0)

\* findQuickMove(row, col, piece); status FALSE stands for the None the
\* method returns when no search finds a move.
FindQuickMove(b, row, col, piece) ==
    LET inRow == FindQuickRowMove(b, row, col, piece)
        inCol == FindQuickColMove(b, row, col, piece)
        inLeft == FindQuickLeftDiagonalMove(b, row, col, piece)
        inRight == FindQuickRightDiagonalMove(b, row, col, piece)
    IN  IF inRow.status THEN inRow
        ELSE IF inCol.status THEN inCol
        ELSE IF inLeft.status THEN inLeft
        ELSE IF inRight.status THEN inRight
        ELSE NoQuickMove

\* findQuickWin(), examining the most recent entry of the undo list.
FindQuickWinLastEntry(g) ==
    LET last == g.undoStack[Len(g.undoStack)]
    IN  FindQuickMove(g.board, last[1], last[2], last[3])

\* findQuickWin()
FindQuickWin(g) ==
    LET second == g.undoStack[Len(g.undoStack) - 1]
    IN  FindQuickMove(g.board, second[1], second[2], second[3])

\* getFreeAdjacentSquares(row, col)
GetFreeAdjacentSquares(b, row, col) ==
    {sq \in {<<row + dr, col + dc>> : dr \in {-1, 0, 1}, dc \in {-1, 0, 1}} :
        /\ sq # <<row, col>>
        /\ OnGrid(sq[1], sq[2])
        /\ b[sq[1]][sq[2]] = NoPiece}

\* findNeighbourSquares()
FindNeighbourSquares(b) ==
    UNION {GetFreeAdjacentSquares(b, rc[1], rc[2]) : rc \in Occupied(b)}

\* The clock read numbered `clock` (from 0) finds the time limit over.
Expired(clock, deadline) == clock >= deadline /\ deadline # NoDeadline

\* The cells of the grid in the order a set of moves is iterated.
CellsInOrder ==
    [k \in 1 .. (size * size) |->
        LET idx == IF moveOrder = "forward" THEN k - 1 ELSE size * size - k
        IN  <<idx \div size, idx % size>>]

\* list(available), in iteration order
InOrder(available) == SelectSeq(CellsInOrder, LAMBDA sq : sq \in available)

\* self.game.table[key] = entry
Store(tbl, key, entry) == (key :> entry) @@ tbl

\* No write into the table.
NoWrite == [over |-> -1, depth |-> -1]

\* The write of an entry of depth `depth` for key: the depth the table
\* recorded for the key until then (-1 if none), and the depth written.
Written(tbl, key, depth) ==
    [over |-> IF key \in DOMAIN tbl THEN tbl[key][1] ELSE -1, depth |-> depth]

\* What maxSearch and minSearch return: a number, or (at the root of the
\* search) a triple; with the grid, the table and the clock as the call
\* leaves them, the return statement taken, the write the call made for its
\* own position, whether the time limit cut the call short, and the nodes
\* visited below it.
Returned(val, row, col, triple, g, tbl, clock, how, wrote, cut, log) ==
    [val |-> val, row |-> row, col |-> col, triple |-> triple,
     grid |-> g, table |-> tbl, clock |-> clock,
     how |-> how, wrote |-> wrote, cut |-> cut, log |-> log]

\* candidate = available.union(getFreeAdjacentSquares(row, col)) without the
\* square just taken, but for the squares next to it
CandidateNoNeighbours(b, available, row, col) == available \ {<<row, col>>}

\* candidate = available.union(getFreeAdjacentSquares(row, col)) without the
\* square just taken
Candidate(b, available, row, col) ==
    (available \cup GetFreeAdjacentSquares(b, row, col)) \ {<<row, col>>}

\* "(prevRow, prevCol) in available" and "prevDepth >= depth", with the
\* depth test failing for every entry
ReusableNever(entry, available, depth) ==
    <<entry[2], entry[3]>> \in available /\ entry[1] >= depth /\ entry[1] < depth

\* "(prevRow, prevCol) in available" and "prevDepth >= depth", with > for >=
ReusableIfDeeper(entry, available, depth) ==
    <<entry[2], entry[3]>> \in available /\ entry[1] > depth

\* "(prevRow, prevCol) in available" and "prevDepth >= depth": the entry of
\* the table is returned as the result of the call.
Reusable(entry, available, depth) ==
    <<entry[2], entry[3]>> \in available /\ entry[1] >= depth

\* The test before the write that ends a search, always passed.
MayStoreAlways(clock, deadline) == TRUE

\* "default_timer() - start < self.timeLimit" before the write that ends a
\* search
MayStore(clock, deadline) == ~Expired(clock, deadline)

\* The grid findNextMove was called on with the last `ply` entries of an
\* undo list placed on it.
RECURSIVE PathGrid(_, _)
PathGrid(stack, ply) ==
    IF ply = 0 \/ stack = <<>> THEN Grid
    ELSE LET m == stack[Len(stack)]
         IN  PlacePieceFn(PathGrid(SubSeq(stack, 1, Len(stack) - 1), ply - 1),
                          m[1], m[2], m[3])

\* A call of maxSearch or minSearch seen from outside: what it was handed
\* (the live grid, the candidate set, the table) against what it returned:
\* whether the candidate set is that of findNeighbourSquares(), whether the
\* piece placed last went to an empty cell next to a piece, whether the
\* grid is the one findNextMove was called on plus the moves of the path to
\* the call, what the table held for the position, whether the result is
\* that entry with the table left alone, whether no call was made below
\* this one, and whether the grid is returned as it was handed over. The
\* call is added to the nodes visited.
Observe(g, available, depth, requiredDepth, tbl, out) ==
    LET stored == g.hashKey \in DOMAIN tbl
        entry == tbl[g.hashKey]
        node ==
            [depth |-> depth,
             root |-> depth = requiredDepth,
             how |-> out.how,
             fresh |-> available = FindNeighbourSquares(g.board),
             legal |-> \/ depth = requiredDepth
                       \/ /\ Cardinality(Occupied(g.board)) = Len(g.undoStack)
                          /\ LET top == g.undoStack[Len(g.undoStack)]
                             IN  \E dr, dc \in {-1, 0, 1} :
                                     /\ <<dr, dc>> # <<0, 0>>
                                     /\ OnGrid(top[1] + dr, top[2] + dc)
                                     /\ g.board[top[1] + dr][top[2] + dc] # NoPiece,
             onPath |-> g = PathGrid(g.undoStack, requiredDepth - depth),
             entry |-> IF stored THEN entry[1] ELSE -1,
             known |-> stored /\ <<entry[2], entry[3]>> \in available,
             exact |-> /\ stored
                       /\ out.val = entry[4]
                       /\ out.triple => (out.row = entry[2] /\ out.col = entry[3])
                       /\ out.table = tbl,
             direct |-> out.log = {},
             wrote |-> out.wrote,
             cut |-> out.cut,
             restored |-> out.grid = g]
    IN  [out EXCEPT !.log = out.log \cup {node}]

RECURSIVE MaxSearch(_, _, _, _, _, _, _, _, _)
RECURSIVE MinSearch(_, _, _, _, _, _, _, _, _)
RECURSIVE MaxSearchLoop(_, _, _, _, _, _, _, _, _, _)
RECURSIVE MinSearchLoop(_, _, _, _, _, _, _, _, _, _)

\* maxSearch: one turn of the loop "for move in available". The state of the
\* loop is (bestHeuristic, bestRow, bestCol) in best, the live grid, the
\* table, the clock, whether the loop was left by a break, whether the time
\* limit cut the search short, and the nodes visited.
MaxSearchMove(move, available, depth, requiredDepth, beta, prevTuple, deadline, st) ==
    CASE Expired(st.clock, deadline) ->
             [st EXCEPT !.clock = st.clock + 1, !.done = TRUE, !.cut = TRUE]
      [] ~Expired(st.clock, deadline) /\ move = prevTuple ->
             [st EXCEPT !.clock = st.clock + 1]
      [] OTHER ->
             LET Try(placed) ==
                     MinSearch(placed, Candidate(placed.board, available, move[1], move[2]),
                               depth - 1, requiredDepth, st.best.val, beta, deadline,
                               st.table, st.clock + 1)
                 Decide(next) ==
                     LET newBest == IF next.val > st.best.val
                                    THEN [val |-> next.val, row |-> move[1], col |-> move[2]]
                                    ELSE st.best
                     IN  [best |-> newBest, grid |-> UndoMoveFn(next.grid),
                          table |-> next.table, clock |-> next.clock,
                          done |-> beta <= newBest.val,
                          cut |-> st.cut \/ next.cut, log |-> st.log \cup next.log]
             IN  Decide(Try(PlacePieceFn(st.grid, move[1], move[2], "X")))

\* maxSearch: the turns of the loop for the moves numbered lo to hi, in
\* order, the second half of them after the first; no turn follows a break.
MaxSearchLoop(moves, lo, hi, available, depth, requiredDepth, beta, prevTuple, deadline, st) ==
    CASE st.done \/ lo > hi -> st
      [] ~st.done /\ lo = hi ->
             MaxSearchMove(moves[lo], available, depth, requiredDepth, beta, prevTuple,
                           deadline, st)
      [] OTHER ->
             MaxSearchLoop(moves, (lo + hi) \div 2 + 1, hi, available, depth,
                           requiredDepth, beta, prevTuple, deadline,
                           MaxSearchLoop(moves, lo, (lo + hi) \div 2, available, depth,
                                         requiredDepth, beta, prevTuple, deadline, st))

\* maxSearch(available, depth, requiredDepth, alpha, beta, start), on the
\* live grid g
MaxSearch(g, available, depth, requiredDepth, alpha, beta, deadline, tbl, clock) ==
    Observe(g, available, depth, requiredDepth, tbl,
    IF Expired(clock, deadline)
    THEN Returned(Halves(200000000), NoMove, NoMove, FALSE, g, tbl, clock + 1,
                  "expired", NoWrite, TRUE, {})
    ELSE IF depth # requiredDepth /\ SelfHasFour(g)
    THEN Returned(Halves(400000000), NoMove, NoMove, FALSE, g,
                  Store(tbl, g.hashKey, <<0, NoMove, NoMove, Halves(400000000)>>), clock + 1,
                  "killer", Written(tbl, g.hashKey, 0), FALSE, {})
    ELSE IF depth = 0
    THEN IF g.hashKey \in DOMAIN tbl
         THEN Returned(tbl[g.hashKey][4], NoMove, NoMove, FALSE, g, tbl, clock + 1,
                       "cached", NoWrite, FALSE, {})
         ELSE LET Leaf(res) ==
                      Returned(res, NoMove, NoMove, FALSE, g,
                               Store(tbl, g.hashKey, <<0, NoMove, NoMove, res>>), clock + 1,
                               "leaf", Written(tbl, g.hashKey, 0), FALSE, {})
              IN  Leaf(OverallHeuristicScore(g.board, "X"))
    ELSE
    LET stored == g.hashKey \in DOMAIN tbl
        known == stored /\ <<tbl[g.hashKey][2], tbl[g.hashKey][3]>> \in available
        prevRow == tbl[g.hashKey][2]
        prevCol == tbl[g.hashKey][3]
        evaluation == tbl[g.hashKey][4]
    IN  IF stored /\ Reusable(tbl[g.hashKey], available, depth)
        THEN Returned(evaluation, prevRow, prevCol, depth = requiredDepth, g, tbl, clock + 1,
                      "reused", NoWrite, FALSE, {})
        ELSE
        LET prevTuple == IF known THEN <<prevRow, prevCol>> ELSE <<NoMove, NoMove>>
            \* the principal move of the table is searched first
            Principal(placed) ==
                MinSearch(placed, Candidate(placed.board, available, prevRow, prevCol),
                          depth - 1, requiredDepth, alpha, beta, deadline, tbl, clock + 1)
            Finish(loop) ==
                Returned(loop.best.val, loop.best.row, loop.best.col, depth = requiredDepth,
                         loop.grid,
                         IF MayStore(loop.clock, deadline)
                         THEN Store(loop.table, loop.grid.hashKey,
                                    <<depth, loop.best.row, loop.best.col, loop.best.val>>)
                         ELSE loop.table,
                         loop.clock + 1, "searched",
                         IF MayStore(loop.clock, deadline)
                         THEN Written(loop.table, loop.grid.hashKey, depth)
                         ELSE NoWrite,
                         loop.cut, loop.log)
            Others(first) ==
                Finish(MaxSearchLoop(InOrder(available), 1, Cardinality(available),
                                     available, depth, requiredDepth, beta, prevTuple, deadline,
                                     [best |-> IF known /\ first.val > alpha
                                               THEN [val |-> first.val, row |-> prevRow,
                                                     col |-> prevCol]
                                               ELSE [val |-> alpha, row |-> NoMove,
                                                     col |-> NoMove],
                                      grid |-> IF known THEN UndoMoveFn(first.grid)
                                               ELSE first.grid,
                                      table |-> first.table, clock |-> first.clock,
                                      done |-> FALSE, cut |-> first.cut,
                                      log |-> first.log]))
        IN  Others(IF known THEN Principal(PlacePieceFn(g, prevRow, prevCol, "X"))
                   ELSE Returned(alpha, NoMove, NoMove, FALSE, g, tbl, clock + 1,
                                 "none", NoWrite, FALSE, {})))

\* minSearch: one turn of the loop "for move in available". The state of the
\* loop is (bestHeuristic, bestRow, bestCol) in best, the live grid, the
\* table, the clock, whether the loop was left by a break, whether the time
\* limit cut the search short, and the nodes visited.
MinSearchMove(move, available, depth, requiredDepth, alpha, prevTuple, deadline, st) ==
    CASE Expired(st.clock, deadline) ->
             [st EXCEPT !.clock = st.clock + 1, !.done = TRUE, !.cut = TRUE]
      [] ~Expired(st.clock, deadline) /\ move = prevTuple ->
             [st EXCEPT !.clock = st.clock + 1]
      [] OTHER ->
             LET Try(placed) ==
                     MaxSearch(placed, Candidate(placed.board, available, move[1], move[2]),
                               depth - 1, requiredDepth, alpha, st.best.val, deadline,
                               st.table, st.clock + 1)
                 Decide(next) ==
                     LET newBest == IF next.val < st.best.val
                                    THEN [val |-> next.val, row |-> move[1], col |-> move[2]]
                                    ELSE st.best
                     IN  [best |-> newBest, grid |-> UndoMoveFn(next.grid),
                          table |-> next.table, clock |-> next.clock,
                          done |-> newBest.val <= alpha,
                          cut |-> st.cut \/ next.cut, log |-> st.log \cup next.log]
             IN  Decide(Try(PlacePieceFn(st.grid, move[1], move[2], "O")))

\* minSearch: the turns of the loop for the moves numbered lo to hi, in
\* order, the second half of them after the first; no turn follows a break.
MinSearchLoop(moves, lo, hi, available, depth, requiredDepth, alpha, prevTuple, deadline, st) ==
    CASE st.done \/ lo > hi -> st
      [] ~st.done /\ lo = hi ->
             MinSearchMove(moves[lo], available, depth, requiredDepth, alpha, prevTuple,
                           deadline, st)
      [] OTHER ->
             MinSearchLoop(moves, (lo + hi) \div 2 + 1, hi, available, depth,
                           requiredDepth, alpha, prevTuple, deadline,
                           MinSearchLoop(moves, lo, (lo + hi) \div 2, available, depth,
                                         requiredDepth, alpha, prevTuple, deadline, st))

\* minSearch(available, depth, requiredDepth, alpha, beta, start), on the
\* live grid g
MinSearch(g, available, depth, requiredDepth, alpha, beta, deadline, tbl, clock) ==
    Observe(g, available, depth, requiredDepth, tbl,
    IF Expired(clock, deadline)
    THEN Returned(-Halves(200000000), NoMove, NoMove, FALSE, g, tbl, clock + 1,
                  "expired", NoWrite, TRUE, {})
    ELSE IF depth # requiredDepth /\ SelfHasFour(g)
    THEN Returned(-Halves(400000000), NoMove, NoMove, FALSE, g,
                  Store(tbl, g.hashKey, <<0, NoMove, NoMove, -Halves(400000000)>>), clock + 1,
                  "killer", Written(tbl, g.hashKey, 0), FALSE, {})
    ELSE IF depth = 0
    THEN IF g.hashKey \in DOMAIN tbl
         THEN Returned(tbl[g.hashKey][4], NoMove, NoMove, FALSE, g, tbl, clock + 1,
                       "cached", NoWrite, FALSE, {})
         ELSE LET Leaf(res) ==
                      Returned(res, NoMove, NoMove, FALSE, g,
                               Store(tbl, g.hashKey, <<0, NoMove, NoMove, res>>), clock + 1,
                               "leaf", Written(tbl, g.hashKey, 0), FALSE, {})
              IN  Leaf(OverallHeuristicScore(g.board, "O"))
    ELSE
    LET stored == g.hashKey \in DOMAIN tbl
        known == stored /\ <<tbl[g.hashKey][2], tbl[g.hashKey][3]>> \in available
        prevRow == tbl[g.hashKey][2]
        prevCol == tbl[g.hashKey][3]
        evaluation == tbl[g.hashKey][4]
    IN  IF stored /\ Reusable(tbl[g.hashKey], available, depth)
        THEN Returned(evaluation, prevRow, prevCol, depth = requiredDepth, g, tbl, clock + 1,
                      "reused", NoWrite, FALSE, {})
        ELSE
        LET prevTuple == IF known THEN <<prevRow, prevCol>> ELSE <<NoMove, NoMove>>
            \* the principal move of the table is searched first
            Principal(placed) ==
                MaxSearch(placed, Candidate(placed.board, available, prevRow, prevCol),
                          depth - 1, requiredDepth, alpha, beta, deadline, tbl, clock + 1)
            Finish(loop) ==
                Returned(loop.best.val, loop.best.row, loop.best.col, depth = requiredDepth,
                         loop.grid,
                         IF MayStore(loop.clock, deadline)
                         THEN Store(loop.table, loop.grid.hashKey,
                                    <<depth, loop.best.row, loop.best.col, loop.best.val>>)
                         ELSE loop.table,
                         loop.clock + 1, "searched",
                         IF MayStore(loop.clock, deadline)
                         THEN Written(loop.table, loop.grid.hashKey, depth)
                         ELSE NoWrite,
                         loop.cut, loop.log)
            Others(first) ==
                Finish(MinSearchLoop(InOrder(available), 1, Cardinality(available),
                                     available, depth, requiredDepth, alpha, prevTuple, deadline,
                                     [best |-> IF known /\ first.val < beta
                                               THEN [val |-> first.val, row |-> prevRow,
                                                     col |-> prevCol]
                                               ELSE [val |-> beta, row |-> NoMove,
                                                     col |-> NoMove],
                                      grid |-> IF known THEN UndoMoveFn(first.grid)
                                               ELSE first.grid,
                                      table |-> first.table, clock |-> first.clock,
                                      done |-> FALSE, cut |-> first.cut,
                                      log |-> first.log]))
        IN  Others(IF known THEN Principal(PlacePieceFn(g, prevRow, prevCol, "O"))
                   ELSE Returned(beta, NoMove, NoMove, FALSE, g, tbl, clock + 1,
                                 "none", NoWrite, FALSE, {})))

\* What findNextMove returns: (val, row, col), or an exception (raised); with
\* the branch taken, the grid, the table and the number of clock reads as
\* the call leaves them, the number of depths searched to the end, and the
\* nodes the search visited.
Found(path, val, row, col, raised, g, tbl, clock, completed, log) ==
    [path |-> path, val |-> val, row |-> row, col |-> col, raised |-> raised,
     grid |-> g, table |-> tbl, clock |-> clock, completed |-> completed, log |-> log]

\* iteratedDeepeningSearch(turn): the loop "for dp in range(1, self.depth + 1)"
\* from dp on; best is (bestHeuristic, bestRow, bestCol). Unpacking the
\* single number maxSearch and minSearch return when the time is over at
\* their first line raises TypeError.
RECURSIVE IteratedDeepeningFrom(_, _, _, _, _, _, _, _, _, _)
IteratedDeepeningFrom(g, turn, available, dp, best, deadline, tbl, clock, completed, log) ==
    IF dp > searchDepth
    THEN Found("search", best.val, best.row, best.col, FALSE, g, tbl, clock, completed, log)
    ELSE
    LET Unpack(curr) ==
            IF ~curr.triple
            THEN Found("search", best.val, best.row, best.col, TRUE, curr.grid,
                       curr.table, curr.clock, completed, log \cup curr.log)
            ELSE IF Expired(curr.clock, deadline)
            THEN Found("search", best.val, best.row, best.col, FALSE, curr.grid,
                       curr.table, curr.clock + 1, completed, log \cup curr.log)
            ELSE IF (IF turn = "X" THEN curr.val >= Halves(400000000)
                                   ELSE curr.val <= -Halves(400000000))
            THEN Found("search", curr.val, curr.row, curr.col, FALSE, curr.grid,
                       curr.table, curr.clock + 1, completed + 1, log \cup curr.log)
            ELSE IteratedDeepeningFrom(curr.grid, turn, available, dp + 1,
                     [val |-> curr.val, row |-> curr.row, col |-> curr.col],
                     deadline, curr.table, curr.clock + 1, completed + 1,
                     log \cup curr.log)
    IN  Unpack(IF turn = "X"
               THEN MaxSearch(g, available, dp, dp, -Inf, Inf, deadline, tbl, clock)
               ELSE MinSearch(g, available, dp, dp, -Inf, Inf, deadline, tbl, clock))

\* iteratedDeepeningSearch(turn)
IteratedDeepeningSearch(g, turn, deadline, tbl) ==
    IteratedDeepeningFrom(g, turn, FindNeighbourSquares(g.board), 1,
        [val |-> IF turn = "X" THEN -Inf ELSE Inf, row |-> NoMove, col |-> NoMove],
        deadline, tbl, 0, 0, {})

\* findNextMove(turn) on the empty board, with the temporary piece left on
\* the board.
EmptyBoardMoveNoUndo(g, turn, tbl) ==
    LET row == size \div 2
        Evaluate(placed) ==
            Found("empty",
                  OverallHeuristicScore(placed.board, IF turn = "O" THEN "X" ELSE "O"),
                  row, row, FALSE, placed, tbl, 0, 0, {})
    IN  Evaluate(PlacePieceFn(g, row, row, turn))

\* findNextMove(turn) on the empty board
EmptyBoardMove(g, turn, tbl) ==
    LET row == size \div 2
        Evaluate(placed) ==
            Found("empty",
                  OverallHeuristicScore(placed.board, IF turn = "O" THEN "X" ELSE "O"),
                  row, row, FALSE, UndoMoveFn(placed), tbl, 0, 0, {})
    IN  Evaluate(PlacePieceFn(g, row, row, turn))

\* findNextMove(turn); unpacking the None of findQuickWin raises TypeError.
FindNextMoveFn(g, turn, deadline, tbl) ==
    IF IsBoardEmpty(g)
    THEN EmptyBoardMove(g, turn, tbl)
    ELSE IF SelfHasFour(g)
    THEN LET Unpack(win) ==
                 Found("quick",
                       IF turn = "X" THEN Halves(200000000) ELSE -Halves(200000000),
                       win.row, win.col, ~win.status, g, tbl, 0, 0, {})
         IN  Unpack(FindQuickWin(g))
    ELSE IteratedDeepeningSearch(g, turn, deadline, tbl)

\* Bounds of the explored games: the depth the engine is built with, the
\* clock reads a time limit may fall on, and the placements (and searches
\* under a time limit) made after the starting position.
MaxSearchDepth == 2
MaxDeadline == 10
MaxBudget == 2
\* Sizes of the grid the engine plays on (15 in the code's main).
EngineSizes == {5}

\* One sample of the numbers __init__ draws for squareValue and hashKey: no
\* six or fewer of the table's numbers XOR to 0, so that positions that
\* differ by up to six pieces have different keys, as 64-bit random numbers
\* give but for a negligible chance.
HashMultiplier == 25845921
EngineHashKey == 715827883
EngineSquareValue(sz) ==
    [r \in Rows(sz) |-> [c \in Rows(sz) |-> [k \in {0, 1} |->
        ((2 * (r * sz + c) + k + 1) * HashMultiplier) % Pow2(30)]]]

\* The grid after the placements of a sequence, made on the empty grid.
RECURSIVE GridAfter(_, _)
GridAfter(sz, moves) ==
    IF moves = <<>>
    THEN [board |-> EmptyBoard(sz), undoStack |-> <<>>, hashKey |-> EngineHashKey]
    ELSE LET m == moves[Len(moves)]
         IN  PlacePieceFn(GridAfter(sz, SubSeq(moves, 1, Len(moves) - 1)), m[1], m[2], m[3])

\* Starting positions, each reached from the empty grid by alternate moves
\* with no winner on the way: the empty grid; one piece in a corner; an
\* opening; X, who moved
\* first, has four in row 0 and is to move; O, who moved second, has four in
\* row 1, the last of them its latest move, and is to move; X, who moved
\* first, has four in row 0, O has four in row 4, and X is to move.
SetupEmpty == <<>>
SetupCorner == <<<<0, 0, "X">>>>
SetupOpening == <<<<2, 2, "X">>, <<1, 1, "O">>, <<2, 3, "X">>>>
SetupFourFirst ==
    <<<<0, 0, "X">>, <<4, 4, "O">>, <<0, 1, "X">>, <<4, 2, "O">>,
      <<0, 2, "X">>, <<2, 4, "O">>, <<0, 3, "X">>, <<3, 0, "O">>>>
SetupFourSecond ==
    <<<<3, 0, "X">>, <<1, 0, "O">>, <<3, 2, "X">>, <<1, 1, "O">>, <<4, 4, "X">>,
      <<1, 2, "O">>, <<0, 2, "X">>, <<1, 3, "O">>, <<4, 1, "X">>>>
SetupBothFours ==
    <<<<0, 0, "X">>, <<4, 0, "O">>, <<0, 1, "X">>, <<4, 1, "O">>,
      <<0, 2, "X">>, <<4, 2, "O">>, <<0, 3, "X">>, <<4, 3, "O">>>>
EngineSetups ==
    {SetupEmpty, SetupCorner, SetupOpening, SetupFourFirst, SetupFourSecond, SetupBothFours}

\* The cells the engine's opponent chooses among.
UserCells == {<<0, 0>>, <<size \div 2, size \div 2>>, <<1, size - 1>>, <<3, size - 1>>}

Deadlines == (0 .. MaxDeadline) \cup {NoDeadline}

Opponent(piece) == IF piece = "O" THEN "X" ELSE "O"

\* The player to move: either one on the empty grid.
SideToMove ==
    IF undoStack = <<>> THEN Pieces
    ELSE {Opponent(undoStack[Len(undoStack)][3])}

\* findNextMove has raised an exception: the program has stopped.
Crashed == lastCall.name = "findNextMove" /\ lastCall.raised

GameOver == GridHasWinner(Grid) \/ GridIsBoardFull(Grid)

EngineInit ==
    \E sz \in EngineSizes, setup \in EngineSetups,
       d \in 1 .. MaxSearchDepth, o \in {"forward", "backward"} :
        /\ size = sz
        /\ squareValue = EngineSquareValue(sz)
        /\ \E g \in {GridAfter(sz, setup)} :
            /\ board = g.board
            /\ undoStack = g.undoStack
            /\ hashKey = g.hashKey
        /\ emptyKey = EngineHashKey
        /\ lastCall = NoCall
        /\ pre = NoGrid
        /\ mark = NoGrid
        /\ table = <<>>
        /\ searchDepth = d
        /\ moveOrder = o
        /\ budget = MaxBudget

\* findNextMove(turn), called for the player to move while the game is on.
FindNextMove ==
    /\ ~Crashed
    /\ ~GameOver
    /\ \E turn \in SideToMove, deadline \in Deadlines :
        LET cost == IF deadline = NoDeadline /\ lastCall.name # "findNextMove"
                    THEN 0 ELSE 1
        IN  /\ budget >= cost
            /\ \E r \in {FindNextMoveFn(Grid, turn, deadline, table)} :
                /\ SetGrid(r.grid)
                /\ table' = r.table
                /\ lastCall' = [name |-> "findNextMove", turn |-> turn,
                                deadline |-> deadline, path |-> r.path, val |-> r.val,
                                row |-> r.row, col |-> r.col, raised |-> r.raised,
                                completed |-> r.completed, clock |-> r.clock,
                                tableBefore |-> table, log |-> r.log]
            /\ budget' = budget - cost
    /\ pre' = Grid
    /\ mark' = NoGrid
    /\ UNCHANGED <<size, squareValue, emptyKey, searchDepth, moveOrder>>

\* The main loop plays the move findNextMove returned.
EnginePlay ==
    /\ lastCall.name = "findNextMove"
    /\ ~lastCall.raised
    /\ lastCall.row # NoMove
    /\ budget > 0
    /\ SetGrid(PlacePieceFn(Grid, lastCall.row, lastCall.col, lastCall.turn))
    /\ lastCall' = [name |-> "placePiece", row |-> lastCall.row, col |-> lastCall.col,
                    piece |-> lastCall.turn, result |-> TRUE]
    /\ pre' = Grid
    /\ mark' = NoGrid
    /\ budget' = budget - 1
    /\ UNCHANGED <<size, squareValue, emptyKey, table, searchDepth, moveOrder>>

\* The main loop places the move of the engine's opponent.
UserMove ==
    /\ ~Crashed
    /\ ~GameOver
    /\ budget > 0
    /\ \E sq \in UserCells, piece \in SideToMove :
        \E r \in {UserPlacePieceFn(Grid, sq[1], sq[2], piece)} :
            /\ r.result
            /\ SetGrid(r.grid)
            /\ lastCall' = [name |-> "userPlacePiece", row |-> sq[1], col |-> sq[2],
                            piece |-> piece, result |-> TRUE]
    /\ pre' = Grid
    /\ mark' = NoGrid
    /\ budget' = budget - 1
    /\ UNCHANGED <<size, squareValue, emptyKey, table, searchDepth, moveOrder>>

(***************************************************************************)
(* The engine at the search depth of the code's main, on late positions    *)
(* of games: few cells are empty, so that the search to depth 4 is small.  *)
(***************************************************************************)
\* The depth main builds the engine with.
MainSearchDepth == 4

\* Starting positions, each reached from the empty grid by alternate moves
\* with no winner on the way; O is to move with six cells empty.
SetupLate ==
    <<<<1, 3, "X">>, <<1, 1, "O">>, <<3, 0, "X">>, <<4, 4, "O">>, <<4, 2, "X">>,
      <<4, 3, "O">>, <<1, 2, "X">>, <<0, 1, "O">>, <<2, 3, "X">>, <<4, 1, "O">>,
      <<0, 3, "X">>, <<3, 3, "O">>, <<0, 4, "X">>, <<0, 2, "O">>, <<0, 0, "X">>,
      <<1, 0, "O">>, <<3, 1, "X">>, <<3, 2, "O">>, <<2, 0, "X">>>>
DeepSetups == {SetupLate}

\* The grid after the placements of a sequence, made on grid g.
RECURSIVE PlayOn(_, _)
PlayOn(g, moves) ==
    IF moves = <<>> THEN g
    ELSE LET m == moves[Len(moves)]
         IN  PlacePieceFn(PlayOn(g, SubSeq(moves, 1, Len(moves) - 1)), m[1], m[2], m[3])

\* The placements are made in three runs.
DeepInit ==
    \E sz \in EngineSizes, setup \in DeepSetups, o \in {"forward", "backward"} :
        /\ size = sz
        /\ squareValue = EngineSquareValue(sz)
        /\ \E early \in {GridAfter(sz, SubSeq(setup, 1, 7))} :
            \E middle \in {PlayOn(early, SubSeq(setup, 8, 14))} :
                \E g \in {PlayOn(middle, SubSeq(setup, 15, Len(setup)))} :
                    /\ board = g.board
                    /\ undoStack = g.undoStack
                    /\ hashKey = g.hashKey
        /\ emptyKey = EngineHashKey
        /\ lastCall = NoCall
        /\ pre = NoGrid
        /\ mark = NoGrid
        /\ table = <<>>
        /\ searchDepth = MainSearchDepth
        /\ moveOrder = o
        /\ budget = MaxBudget

(***************************************************************************)
(* findQuickWin on its own: positions in which X's pieces lie on one line  *)
(* that runs to an edge of the grid, placed in any order, while O takes    *)
(* the far cells of that line or cells away from it.                       *)
(***************************************************************************)
\* Placements made before findQuickWin is called.
MaxQuickPieces == 8
QuickSizes == {10}

\* The four directions of a line: row, column, left and right diagonal.
Directions == {<<0, 1>>, <<1, 0>>, <<1, 1>>, <<1, -1>>}

\* The lines of the explored positions: from (5, 5) towards the high edges
\* of the grid, from (4, 4) towards the low ones.
LineDirections == Directions \cup {<<-d[1], -d[2]>> : d \in Directions}
QuickBase(d) == IF d \in Directions THEN 5 ELSE 4
QuickLine(d) == {<<QuickBase(d) + k * d[1], QuickBase(d) + k * d[2]>> : k \in -1 .. 4}
QuickEnds(d) ==
    {<<QuickBase(d) - d[1], QuickBase(d) - d[2]>>,
     <<QuickBase(d) + 4 * d[1], QuickBase(d) + 4 * d[2]>>}
QuickAway == {<<0, 0>>, <<0, 2>>, <<2, 0>>}

PiecesOf(b, piece) == {rc \in Rows(size) \X Rows(size) : b[rc[1]][rc[2]] = piece}

\* The directions of the lines that hold every piece of X.
OpenDirections == {d \in LineDirections : PiecesOf(board, "X") \subseteq QuickLine(d)}

QuickCells(piece) ==
    IF piece = "X" THEN UNION {QuickLine(d) : d \in OpenDirections}
    ELSE QuickAway \cup UNION {QuickEnds(d) : d \in OpenDirections}

QuickInit ==
    \E sz \in QuickSizes :
        /\ size = sz
        /\ board = EmptyBoard(sz)
        /\ undoStack = <<>>
        /\ hashKey = SampleHashKey(1)
        /\ squareValue = SampleSquareValue(sz, 1)
        /\ emptyKey = SampleHashKey(1)
        /\ lastCall = NoCall
        /\ pre = NoGrid
        /\ mark = NoGrid

\* placePiece by the players in turn, X first.
QuickPlace ==
    /\ Len(undoStack) < MaxQuickPieces
    /\ \E piece \in {IF Len(undoStack) % 2 = 0 THEN "X" ELSE "O"} :
        \E sq \in QuickCells(piece) :
            /\ board[sq[1]][sq[2]] = NoPiece
            /\ SetGrid(PlacePieceFn(Grid, sq[1], sq[2], piece))
            /\ lastCall' = [name |-> "placePiece", row |-> sq[1], col |-> sq[2],
                            piece |-> piece, result |-> TRUE]
    /\ pre' = Grid
    /\ mark' = NoGrid
    /\ UNCHANGED <<size, squareValue, emptyKey>>

\* findQuickWin(), called when the undo list has a second most recent entry.
FindQuickWinCall ==
    /\ Len(undoStack) >= 2
    /\ lastCall.name = "placePiece"
    /\ \E win \in {FindQuickWin(Grid)} :
        lastCall' = [name |-> "findQuickWin", status |-> win.status,
                     row |-> win.row, col |-> win.col]
    /\ pre' = Grid
    /\ mark' = NoGrid
    /\ UNCHANGED <<size, board, undoStack, hashKey, squareValue, emptyKey>>

(***************************************************************************)
(* getHeuristicScore on its own: the rows of every content, each with the  *)
(* dummy None entry horizontalHeuristic adds at its end.                   *)
(***************************************************************************)
\* Cells of a row handed to getHeuristicScore.
HeuristicLen == 6

HeuristicRows == [1 .. HeuristicLen -> Pieces \cup {NoPiece}]

\* A row has been drawn; the grid itself is not built.
HeuristicInit ==
    /\ size = 0
    /\ board = <<>>
    /\ undoStack = <<>>
    /\ hashKey = 0
    /\ squareValue = <<>>
    /\ emptyKey = 0
    /\ \E row \in HeuristicRows : lastCall = [name |-> "row", row |-> row]
    /\ pre = NoGrid
    /\ mark = NoGrid

\* getHeuristicScore(row + [None], turn)
GetHeuristicScoreCall ==
    /\ \E turn \in Pieces :
        lastCall' = [name |-> "getHeuristicScore", row |-> lastCall.row, turn |-> turn,
                     result |-> GetHeuristicScore(Append(lastCall.row, NoPiece), turn)]
    /\ UNCHANGED <<size, board, undoStack, hashKey, squareValue, emptyKey, pre, mark>>

(***************************************************************************)
(* selfHasFour and findQuickWin late in a game: O has moved first and has  *)
(* three pieces away from every line, X has two on a line; X goes on along *)
(* that line while O takes its far cells or cells away from it.            *)
(***************************************************************************)
\* Entries of the undo list when the placements stop.
MaxFourPieces == 11

\* The first five placements: X's two are cells i and j of the line.
FourOpening(d, i, j) ==
    <<<<0, 2, "O">>, <<QuickBase(d) + i * d[1], QuickBase(d) + i * d[2], "X">>,
      <<2, 0, "O">>, <<QuickBase(d) + j * d[1], QuickBase(d) + j * d[2], "X">>,
      <<9, 7, "O">>>>

FourAway == {<<7, 9>>, <<0, 6>>, <<9, 0>>}

FourCells(piece) ==
    IF piece = "X" THEN QuickCells("X")
    ELSE FourAway \cup UNION {QuickEnds(d) : d \in OpenDirections}

FourInit ==
    \E sz \in QuickSizes, d \in LineDirections, i \in -1 .. 4, j \in -1 .. 4 :
        /\ i < j
        /\ size = sz
        /\ squareValue = SampleSquareValue(sz, 1)
        /\ \E g \in {GridAfter(sz, FourOpening(d, i, j))} :
            /\ board = g.board
            /\ undoStack = g.undoStack
            /\ hashKey = g.hashKey
        /\ emptyKey = EngineHashKey
        /\ lastCall = NoCall
        /\ pre = NoGrid
        /\ mark = NoGrid

\* placePiece by the players in turn, X after O.
FourPlace ==
    /\ Len(undoStack) < MaxFourPieces
    /\ \E piece \in {IF Len(undoStack) % 2 = 0 THEN "O" ELSE "X"} :
        \E sq \in FourCells(piece) :
            /\ board[sq[1]][sq[2]] = NoPiece
            /\ SetGrid(PlacePieceFn(Grid, sq[1], sq[2], piece))
            /\ lastCall' = [name |-> "placePiece", row |-> sq[1], col |-> sq[2],
                            piece |-> piece, result |-> TRUE]
    /\ pre' = Grid
    /\ mark' = NoGrid
    /\ UNCHANGED <<size, squareValue, emptyKey>>

\* selfHasFour() and, as findNextMove does when it returns True,
\* findQuickWin(), called for the player to move.
SelfHasFourCall ==
    /\ lastCall.name = "placePiece"
    /\ \E four \in {SelfHasFour(Grid)} :
        \E win \in {IF four THEN FindQuickWin(Grid) ELSE NoQuickMove} :
            lastCall' = [name |-> "selfHasFour", result |-> four, status |-> win.status,
                         row |-> win.row, col |-> win.col]
    /\ pre' = Grid
    /\ mark' = NoGrid
    /\ UNCHANGED <<size, board, undoStack, hashKey, squareValue, emptyKey>>

(***************************************************************************)
(* Idle values of the other parts.                                         *)
(***************************************************************************)
BoardIdle ==
    /\ state = <<>>
    /\ mirror = <<>>
    /\ window = {}

AIIdle ==
    /\ states = <<>>
    /\ plays = <<>>
    /\ wins = <<>>
    /\ maxDepth = 0
    /\ pc = "idle"
    /\ ret = NoReturn
    /\ snap = NoSnap
    /\ sims = 0
    /\ lastSim = NoSim

EngineIdle ==
    /\ table = <<>>
    /\ searchDepth = 0
    /\ moveOrder = "none"
    /\ budget = 0

(***************************************************************************)
(* The grid's specification.                                               *)
(***************************************************************************)
InitGrid == GridInit /\ BoardIdle /\ AIIdle /\ EngineIdle

NextGrid ==
    \/ PlacePiece /\ UNCHANGED <<boardVars, aiVars, engineVars>>
    \/ UndoMove /\ UNCHANGED <<boardVars, aiVars, engineVars>>
    \/ UserPlacePiece /\ UNCHANGED <<boardVars, aiVars, engineVars>>
    \/ UserUndoMove /\ UNCHANGED <<boardVars, aiVars, engineVars>>

SpecGrid == InitGrid /\ [][NextGrid]_vars

(***************************************************************************)
(* The connect-four board's specification.                                 *)
(***************************************************************************)
InitBoard == GridIdle /\ BoardInit /\ AIIdle /\ EngineIdle

NextBoard == Play /\ UNCHANGED <<gridVars, aiVars, engineVars>>

SpecBoard == InitBoard /\ [][NextBoard]_vars

(***************************************************************************)
(* The AI's specification.                                                 *)
(***************************************************************************)
InitAI == GridIdle /\ BoardIdle /\ AIInit /\ EngineIdle

NextAI ==
    \/ UpdateStates /\ UNCHANGED <<gridVars, boardVars, engineVars>>
    \/ GetNextMovesEnter /\ UNCHANGED <<gridVars, boardVars, engineVars>>
    \/ RunSimulation /\ UNCHANGED <<gridVars, boardVars, engineVars>>
    \/ GetNextMovesSelect /\ UNCHANGED <<gridVars, boardVars, engineVars>>

SpecAI == InitAI /\ [][NextAI]_vars

(***************************************************************************)
(* The engine's specification.                                             *)
(***************************************************************************)
InitEngine == EngineInit /\ BoardIdle /\ AIIdle

NextEngine ==
    \/ FindNextMove /\ UNCHANGED <<boardVars, aiVars>>
    \/ EnginePlay /\ UNCHANGED <<boardVars, aiVars>>
    \/ UserMove /\ UNCHANGED <<boardVars, aiVars>>

SpecEngine == InitEngine /\ [][NextEngine]_vars

(***************************************************************************)
(* The engine's specification at the search depth of main.                 *)
(***************************************************************************)
InitDeep == DeepInit /\ BoardIdle /\ AIIdle

SpecDeep == InitDeep /\ [][NextEngine]_vars

(***************************************************************************)
(* The specification of findQuickWin on its own.                           *)
(***************************************************************************)
InitQuick == QuickInit /\ BoardIdle /\ AIIdle /\ EngineIdle

NextQuick ==
    \/ QuickPlace /\ UNCHANGED <<boardVars, aiVars, engineVars>>
    \/ FindQuickWinCall /\ UNCHANGED <<boardVars, aiVars, engineVars>>

SpecQuick == InitQuick /\ [][NextQuick]_vars

(***************************************************************************)
(* The specification of getHeuristicScore on its own.                      *)
(***************************************************************************)
InitHeuristic == HeuristicInit /\ BoardIdle /\ AIIdle /\ EngineIdle

NextHeuristic == GetHeuristicScoreCall /\ UNCHANGED <<boardVars, aiVars, engineVars>>

SpecHeuristic == InitHeuristic /\ [][NextHeuristic]_vars

(***************************************************************************)
(* The specification of selfHasFour and findQuickWin late in a game.       *)
(***************************************************************************)
InitFour == FourInit /\ BoardIdle /\ AIIdle /\ EngineIdle

NextFour ==
    \/ FourPlace /\ UNCHANGED <<boardVars, aiVars, engineVars>>
    \/ SelfHasFourCall /\ UNCHANGED <<boardVars, aiVars, engineVars>>

SpecFour == InitFour /\ [][NextFour]_vars

(***************************************************************************)
(* Claims about the grid (checked under SpecGrid).                         *)
(***************************************************************************)
\* The XOR of squareValue[r][c][piece] over the cells in `cells` of board b.
RECURSIVE XorCells(_, _)
XorCells(b, cells) ==
    IF cells = {} THEN 0
    ELSE LET rc == CHOOSE x \in cells : TRUE
         IN  XOR(squareValue[rc[1]][rc[2]][PieceIndex(b[rc[1]][rc[2]])],
                 XorCells(b, cells \ {rc}))

XorOccupied == XorCells(board, Occupied(board))

\* C1: after any sequence of placePiece (on empty cells), userPlacePiece,
\* undoMove and userUndoMove calls, hashKey equals the XOR of the random
\* values of the occupied cells. The claim is stated under both readings of
\* the empty board's key: the XOR over no cell (0), or the key __init__ draws.
C1_ZobristInvariant ==
    \/ hashKey = XorOccupied
    \/ hashKey = XOR(emptyKey, XorOccupied)

\* C2: userUndoMove with at least two entries on the undo list removes the
\* two most recent entries, sets both of their cells back to empty and XORs
\* both cells' values back into the hash; with fewer entries it changes
\* nothing.
C2_UserUndoMoveClearsTwo ==
    lastCall.name = "userUndoMove" =>
        LET n == Len(pre.undoStack)
        IN  IF n >= 2
            THEN LET first == pre.undoStack[n]
                     second == pre.undoStack[n - 1]
                 IN  /\ undoStack = SubSeq(pre.undoStack, 1, n - 2)
                     /\ board = [pre.board EXCEPT ![first[1]][first[2]] = NoPiece,
                                                  ![second[1]][second[2]] = NoPiece]
                     /\ hashKey = XOR(XOR(pre.hashKey,
                                          squareValue[first[1]][first[2]][PieceIndex(first[3])]),
                                      squareValue[second[1]][second[2]][PieceIndex(second[3])])
            ELSE Grid = pre

\* C3: placePiece(r, c, p) on an empty cell followed by undoMove() restores
\* hashKey, the board cell and the undo list to what they were before the
\* placement.
C3_PlaceUndoRoundTrip ==
    mark # NoGrid => Grid = mark

\* A placement on a grid that already holds a piece has been undone.
C3_Witness ==
    /\ mark # NoGrid
    /\ lastCall.name = "undoMove"
    /\ Occupied(board) # {}
    /\ pre.hashKey # hashKey

\* C4: userPlacePiece(row, col, piece) returns True and places the piece
\* exactly when (row, col) is on the board, the cell is empty and the piece is
\* X or O; otherwise it returns False and changes nothing.
C4_UserPlacePieceValidates ==
    lastCall.name = "userPlacePiece" =>
        LET row == lastCall.row
            col == lastCall.col
            piece == lastCall.piece
            ok == /\ row \in Rows(size)
                  /\ col \in Rows(size)
                  /\ pre.board[row][col] = NoPiece
                  /\ piece \in {"X", "O"}
        IN  /\ lastCall.result = ok
            /\ IF ok
               THEN /\ board = [pre.board EXCEPT ![row][col] = piece]
                    /\ undoStack = Append(pre.undoStack, <<row, col, piece>>)
                    /\ hashKey = XOR(pre.hashKey, squareValue[row][col][PieceIndex(piece)])
               ELSE Grid = pre

\* userPlacePiece has refused a piece on an occupied cell of the board.
C4_Witness ==
    /\ lastCall.name = "userPlacePiece"
    /\ lastCall.row \in Rows(size)
    /\ lastCall.col \in Rows(size)
    /\ lastCall.piece \in Pieces
    /\ pre.board[lastCall.row][lastCall.col] # NoPiece
    /\ lastCall.result = FALSE

(***************************************************************************)
(* Claims about the connect-four board (checked under SpecBoard).          *)
(***************************************************************************)
\* The bit of the cell in column col, row row (row 0 is the bottom).
CellBit(col, row) == ROWCOUNT * col + row
ColumnCells(col) == {CellBit(col, row) : row \in 0 .. (ROWCOUNT - 1)}
OnBoard(col, row) ==
    0 <= col /\ col < COLUMNCOUNT /\ 0 <= row /\ row < ROWCOUNT

\* Four consecutive cells of the 6x7 board, all in `mask`, along the
\* direction <<dc, dr>>.
FourAlong(mask, dc, dr) ==
    \E b \in BitAnd(mask, boardMask) :
        LET col == b \div ROWCOUNT
            row == b % ROWCOUNT
        IN  \A k \in 1 .. 3 :
                /\ OnBoard(col + k * dc, row + k * dr)
                /\ CellBit(col + k * dc, row + k * dr) \in mask

FourInLine(mask) ==
    \/ FourAlong(mask, 1, 0)
    \/ FourAlong(mask, 0, 1)
    \/ FourAlong(mask, 1, 1)
    \/ FourAlong(mask, 1, -1)

\* The mask of the player who just moved.
MoverMask(st) == st[3 - st[3]]

\* C5: in every state reached from start() by updateState calls on legal
\* columns the two masks are disjoint and their union lies in the 42-bit
\* board mask.
C5_MasksDisjointOnBoard ==
    /\ BitAnd(state[1], state[2]) = {}
    /\ BitOr(state[1], state[2]) \subseteq boardMask
    /\ Cardinality(BitOr(state[1], state[2])) <= ROWCOUNT * COLUMNCOUNT

\* A column has been filled to the top, with pieces of both players.
C5_Witness ==
    \E col \in 0 .. (COLUMNCOUNT - 1) :
        /\ IsColumnFull(state, col)
        /\ BitAnd(state[1], ColumnCells(col)) # {}
        /\ BitAnd(state[2], ColumnCells(col)) # {}

\* C6: for every reachable state and every column that is not full,
\* updateState sets exactly one new bit, in that column directly above its
\* contiguous stack (at the bottom if the column is empty), in the mask of the
\* player to move; the opponent's mask and the other columns are unchanged and
\* the turn is flipped.
C6_UpdateStateDropsOnePiece ==
    \A col \in 0 .. (COLUMNCOUNT - 1) :
        ~IsColumnFull(state, col) =>
            LET occupied == BitOr(state[1], state[2])
                height == Cardinality(BitAnd(occupied, ColumnCells(col)))
                mover == state[3]
                new == UpdateState(state, col)
            IN  /\ BitAnd(occupied, ColumnCells(col))
                       = {CellBit(col, row) : row \in 0 .. (height - 1)}
                /\ new[mover] = state[mover] \cup {CellBit(col, height)}
                /\ CellBit(col, height) \notin occupied
                /\ new[3 - mover] = state[3 - mover]
                /\ new[3] = 3 - mover
                /\ new[3] \in {1, 2}

\* Pieces were dropped on a stack that holds pieces of both players, and the
\* column is not full yet; another column is still empty.
C6_Witness ==
    /\ \E col \in 0 .. (COLUMNCOUNT - 1) :
        /\ ~IsColumnFull(state, col)
        /\ Cardinality(BitAnd(state[1], ColumnCells(col))) >= 2
        /\ Cardinality(BitAnd(state[2], ColumnCells(col))) >= 2
    /\ \E col \in 0 .. (COLUMNCOUNT - 1) :
        BitAnd(BitOr(state[1], state[2]), ColumnCells(col)) = {}

\* C7: hasWinner returns the player who just moved (3 - turn) exactly when
\* that player's pieces hold four consecutive cells of a row, a column or a
\* diagonal of the board, and 0 otherwise (so a four that wraps from one
\* column into the next is not reported, and four pieces of player 1 stacked
\* in one column are).
C7_HasWinnerIffFourInLine ==
    HasWinner(state) = IF FourInLine(MoverMask(state)) THEN 3 - state[3] ELSE 0

\* A player has won by a diagonal alone.
C7_Witness ==
    /\ HasWinner(state) # 0
    /\ \/ FourAlong(MoverMask(state), 1, 1)
       \/ FourAlong(MoverMask(state), 1, -1)
    /\ ~FourAlong(MoverMask(state), 1, 0)
    /\ ~FourAlong(MoverMask(state), 0, 1)

\* The player who just moved holds four consecutive bits that run from the top
\* of one column into the bottom of the next, and no four in a line.
C7_WrapReached ==
    /\ \E col \in 0 .. (COLUMNCOUNT - 2), row \in (ROWCOUNT - 3) .. (ROWCOUNT - 1) :
        {CellBit(col, row) + k : k \in 0 .. 3} \subseteq MoverMask(state)
    /\ HasWinner(state) = 0

\* C8: the state reached by the mirrored move sequence (6 - c1) .. (6 - cn)
\* gets the same hasWinner verdict as the state reached by c1 .. cn.
C8_MirrorSameVerdict ==
    HasWinner(state) = HasWinner(mirror)

\* A game won on a rising diagonal, whose mirror image is won on a falling one.
C8_Witness ==
    /\ HasWinner(state) = 2
    /\ HasWinner(mirror) = 2
    /\ FourAlong(state[2], 1, 1)
    /\ FourAlong(mirror[2], 1, -1)
    /\ ~FourAlong(mirror[2], 1, 1)

(***************************************************************************)
(* Claims about the AI (checked under SpecAI).                             *)
(***************************************************************************)
\* wins.get(child, 0) and plays.get(child, 1) of the child reached by `col`.
ChildWins(col) ==
    LET child == UpdateState(Root, col)
    IN  IF child \in DOMAIN wins THEN wins[child] ELSE 0
ChildPlays(col) ==
    LET child == UpdateState(Root, col)
    IN  IF child \in DOMAIN plays THEN plays[child] ELSE 1

\* The win rate of column a is at least (more than) that of column b.
RateAtLeast(a, b) == ChildWins(a) * ChildPlays(b) >= ChildWins(b) * ChildPlays(a)
RateAbove(a, b) == ChildWins(a) * ChildPlays(b) > ChildWins(b) * ChildPlays(a)

\* C9: with two or more legal moves at the root, getNextMoves returns the
\* legal column whose child has the highest winCount / playCount (a child
\* absent from the store counting 0 / 1), the earliest such column on ties; so
\* what it returns is always one of getLegalMoves(root).
C9_ReturnsBestLegalColumn ==
    (states # <<>> /\ ret.kind # "pending" /\ Len(GetLegalMoves(Root)) >= 2) =>
        LET legal == GetLegalMoves(Root)
        IN  /\ ret.kind = "column"
            /\ \E i \in 1 .. Len(legal) :
                /\ ret.col = legal[i]
                /\ \A j \in 1 .. Len(legal) : RateAtLeast(legal[i], legal[j])
                /\ \A j \in 1 .. (i - 1) : RateAbove(legal[i], legal[j])

\* C10: with exactly one legal move at the root, getNextMoves returns that
\* column and runs no simulation: plays, wins and the state history are what
\* they were when it was called.
C10_SingleMoveNoSimulation ==
    (states # <<>> /\ ret.kind # "pending" /\ Len(GetLegalMoves(Root)) = 1) =>
        /\ ret = [kind |-> "column", col |-> GetLegalMoves(Root)[1]]
        /\ plays = snap.plays
        /\ wins = snap.wins
        /\ states = snap.states
        /\ sims = snap.sims

\* getNextMoves has returned the only legal column of a root, with a store
\* that earlier simulations have filled.
C10_Witness ==
    /\ states # <<>>
    /\ ret.kind = "column"
    /\ Len(GetLegalMoves(Root)) = 1
    /\ DOMAIN plays # {}
    /\ sims > 0

\* C11: getNextMoves returns the sentinel False exactly when the root has no
\* legal move (the board is full); it then has run no simulation and plays, wins
\* and the history are what they were at the call.
C11_DrawSentinel ==
    (states # <<>> /\ ret.kind # "pending") =>
        /\ (ret.kind = "False") <=> (Len(GetLegalMoves(Root)) = 0)
        /\ (Len(GetLegalMoves(Root)) = 0) =>
              /\ plays = snap.plays
              /\ wins = snap.wins
              /\ states = snap.states
              /\ sims = snap.sims

\* getNextMoves has returned False on a full board, with a store that earlier
\* simulations have filled.
C11_Witness ==
    /\ states # <<>>
    /\ ret.kind = "False"
    /\ IsBoardFull(Root)
    /\ DOMAIN plays # {}
    /\ sims > 0

\* The counts before a simulation, a state absent from the store counting 0.
PlaysBefore(pos) == IF pos \in DOMAIN plays THEN plays[pos] ELSE 0
WinsBefore(pos) == IF pos \in DOMAIN wins THEN wins[pos] ELSE 0

\* C19: a step of runSimulation adds 1 to the play count of every visited
\* state of the store (the state this playout inserted included); with a
\* winner it adds a win (2 halves) exactly to the visited stored states whose
\* mover, 3 - turn, is the winner; on a draw it adds half a win to every
\* visited stored state; the counts of the states not visited stay.
C19_BackPropagation ==
    [][(sims' = sims + 1) =>
        LET sim == lastSim'
            visited == {sim.path[i].state : i \in 1 .. Len(sim.path)}
        IN  /\ DOMAIN wins' = DOMAIN plays'
            /\ DOMAIN plays \subseteq DOMAIN plays'
            /\ \A pos \in DOMAIN plays' :
                IF pos \in visited
                THEN /\ plays'[pos] = PlaysBefore(pos) + 1
                     /\ sim.win # 0 =>
                           wins'[pos] = WinsBefore(pos)
                                          + (IF 3 - pos[3] = sim.win THEN 2 ELSE 0)
                     /\ sim.draw => wins'[pos] = WinsBefore(pos) + 1
                ELSE /\ pos \in DOMAIN plays
                     /\ plays'[pos] = plays[pos]
                     /\ wins'[pos] = wins[pos]
    ]_vars

\* A playout with a winner has gone through two states of the store, one
\* entered by the winner's move and one by the loser's.
C19_Witness ==
    /\ pc = "simulating"
    /\ lastSim # NoSim
    /\ lastSim.win # 0
    /\ \E i, j \in 1 .. Len(lastSim.path) :
        /\ lastSim.path[i].state \in DOMAIN plays
        /\ lastSim.path[j].state \in DOMAIN plays
        /\ 3 - lastSim.path[i].state[3] = lastSim.win
        /\ 3 - lastSim.path[j].state[3] # lastSim.win
        /\ wins[lastSim.path[i].state] >= 2

\* A playout that ended in a draw on a full board has been counted.
C19_DrawReached ==
    /\ pc = "simulating"
    /\ lastSim # NoSim
    /\ lastSim.draw
    /\ \E i \in 1 .. Len(lastSim.path) :
        /\ lastSim.path[i].state \in DOMAIN plays
        /\ wins[lastSim.path[i].state] = 1

\* C20: at a ply of runSimulation where some child of the current state is not
\* in the store, the child chosen is one that is not in the store.
C20_ChoosesUnexploredChild ==
    (pc = "simulating" /\ lastSim # NoSim) =>
        \A i \in 1 .. Len(lastSim.path) :
            ~lastSim.path[i].uct => ~lastSim.path[i].wasStored

\* The states of a playout's path that were not in the store before it, in
\* the order the playout reached them.
NewOnPath(sim) == SelectSeq([i \in 1 .. Len(sim.path) |-> sim.path[i].state],
                            LAMBDA st : st \notin DOMAIN plays)

\* C21: a step of runSimulation removes no entry of the store and adds at most
\* one: the first state of the playout that was not in the store, and no
\* state reached after it; that state, inserted with counts 0 and then
\* back-propagated once, has one play and at most one win (2 halves).
C21_InsertsFirstNewState ==
    [][(sims' = sims + 1) =>
        LET new == NewOnPath(lastSim')
        IN  /\ DOMAIN plays \subseteq DOMAIN plays'
            /\ DOMAIN wins \subseteq DOMAIN wins'
            /\ DOMAIN plays' \ DOMAIN plays = (IF new = <<>> THEN {} ELSE {new[1]})
            /\ DOMAIN wins' \ DOMAIN wins = (IF new = <<>> THEN {} ELSE {new[1]})
            /\ new # <<>> => /\ plays'[new[1]] = 1
                             /\ wins'[new[1]] \in {0, 1, 2}
    ]_vars

\* A playout has inserted its first new state and gone on through two more
\* states that stay out of the store.
C21_Witness ==
    /\ pc = "simulating"
    /\ lastSim # NoSim
    /\ lastSim.inserted # NoState
    /\ lastSim.inserted \in DOMAIN plays
    /\ Cardinality({i \in 1 .. Len(lastSim.path) :
                       lastSim.path[i].state \notin DOMAIN plays}) >= 2
    /\ \E i \in 1 .. Len(lastSim.path) :
           lastSim.path[i].wasStored /\ lastSim.path[i].state # lastSim.inserted

\* C28: plays and wins have the same keys, every stored state has at least
\* one play and between 0 and playCount wins (in halves, at most twice the
\* plays), and no playout's UCT score has divided by zero or taken log(0).
C28_StoreInvariant ==
    /\ DOMAIN plays = DOMAIN wins
    /\ \A pos \in DOMAIN plays :
        /\ plays[pos] >= 1
        /\ 0 <= wins[pos]
        /\ wins[pos] <= 2 * plays[pos]
    /\ lastSim # NoSim => ~lastSim.error

\* A playout has chosen a child by the UCT score, all children being stored,
\* in a later call of getNextMoves than the first simulations, from the
\* next root.
C28_Witness ==
    /\ pc = "simulating"
    /\ lastSim # NoSim
    /\ Len(states) >= 2
    /\ snap.sims >= 1
    /\ \E i \in 1 .. Len(lastSim.path) : lastSim.path[i].uct

\* The empty cells of the board in a state.
EmptyCells(st) == boardMask \ (st[1] \cup st[2])

\* C30: a playout makes at most maxDepth plies, and at most as many as the
\* root has empty cells, fewer than the default maxDepth on the 6x7 board;
\* with the default maxDepth it ends with a winner or with no legal move; a
\* playout that used up maxDepth adds a play and no win to the stored states
\* it visited.
C30_PlayoutTerminates ==
    [][(sims' = sims + 1) =>
        LET sim == lastSim'
        IN  /\ Len(sim.path) <= maxDepth
            /\ Len(sim.path) <= Cardinality(EmptyCells(Root))
            /\ ROWCOUNT * COLUMNCOUNT < DefaultMaxDepth
            /\ maxDepth = DefaultMaxDepth => (sim.win # 0 \/ sim.draw)
            /\ (sim.win = 0 /\ ~sim.draw) =>
                   /\ Len(sim.path) = maxDepth
                   /\ \A pos \in DOMAIN plays' :
                       /\ wins'[pos] = WinsBefore(pos)
                       /\ pos \in Visited(sim) => plays'[pos] = PlaysBefore(pos) + 1
    ]_vars

\* A playout was cut off by the short maxDepth; the two states it visited,
\* one entered by each player, are in the store, the first of them for the
\* second time, and neither has a win.
C30_Witness ==
    /\ pc = "simulating"
    /\ lastSim # NoSim
    /\ maxDepth = ShortDepth
    /\ lastSim.win = 0
    /\ ~lastSim.draw
    /\ Len(lastSim.path) = ShortDepth
    /\ lastSim.path[1].wasStored
    /\ plays[lastSim.path[1].state] >= 2
    /\ wins[lastSim.path[1].state] = 0
    /\ lastSim.path[2].state \in DOMAIN plays
    /\ wins[lastSim.path[2].state] = 0

(***************************************************************************)
(* Claims about the engine (checked under SpecEngine).                     *)
(***************************************************************************)
\* findNextMove has just returned or raised.
Searched == lastCall.name = "findNextMove"

\* C12: wherever the time limit falls during findNextMove (before the first
\* depth, between two depths, inside a recursive call), findNextMove raises
\* no exception and returns a triple: the result of the last depth searched
\* to the end, or the fallback (infinite evaluation, no cell) if none was.
C12_DeadlineIsNotAnError ==
    (Searched /\ lastCall.path = "search" /\ lastCall.deadline # NoDeadline)
        => /\ ~lastCall.raised
           /\ lastCall.completed = 0
                  => /\ lastCall.row = NoMove
                     /\ lastCall.col = NoMove
                     /\ lastCall.val = (IF lastCall.turn = "X" THEN -Inf ELSE Inf)

\* C13: on a position with at least one piece and one empty cell, when the
\* time limit does not fall before depth 1 is searched to the end,
\* findNextMove does not take the empty-board branch and returns a cell that
\* is on the board and empty, never (None, None).
C13_ReturnsEmptyCell ==
    (/\ Searched
     /\ Occupied(pre.board) # {}
     /\ ~GridIsBoardFull(pre)
     /\ lastCall.path = "search" => lastCall.completed >= 1)
        => /\ lastCall.path # "empty"
           /\ ~lastCall.raised
           /\ lastCall.row # NoMove
           /\ lastCall.col # NoMove
           /\ OnGrid(lastCall.row, lastCall.col)
           /\ pre.board[lastCall.row][lastCall.col] = NoPiece

\* Placing piece on (row, col) completes five in a row.
CompletesFive(g, row, col, piece) ==
    /\ g.board[row][col] = NoPiece
    /\ GridHasWinner(PlacePieceFn(g, row, col, piece))

WinningCells(g, piece) ==
    {sq \in Rows(size) \X Rows(size) : CompletesFive(g, sq[1], sq[2], piece)}

\* C14: with depth cap 1 and no time limit in the way, when the side to move
\* can complete five in a row at once, findNextMove returns a move that does
\* so, with a score at or beyond the threshold at which iterated deepening
\* stops (400000000 for X, -400000000 for O).
C14_ImmediateWinSaturated ==
    (/\ Searched
     /\ searchDepth = 1
     /\ lastCall.deadline = NoDeadline
     /\ WinningCells(pre, lastCall.turn) # {})
        => /\ ~lastCall.raised
           /\ <<lastCall.row, lastCall.col>> \in WinningCells(pre, lastCall.turn)
           /\ lastCall.turn = "X" => lastCall.val >= Halves(400000000)
           /\ lastCall.turn = "O" => lastCall.val <= -Halves(400000000)

\* The runs of exactly four pieces of `piece` in a line, as (start, direction).
RunsOfFour(b, piece) ==
    {run \in (Rows(size) \X Rows(size)) \X Directions :
        LET r == run[1][1]
            c == run[1][2]
            dr == run[2][1]
            dc == run[2][2]
        IN  /\ \A k \in 0 .. 3 :
                OnGrid(r + k * dr, c + k * dc) /\ b[r + k * dr][c + k * dc] = piece
            /\ ~(OnGrid(r - dr, c - dc) /\ b[r - dr][c - dc] = piece)
            /\ ~(OnGrid(r + 4 * dr, c + 4 * dc) /\ b[r + 4 * dr][c + 4 * dc] = piece)}

\* The two cells directly beyond the ends of a run of four.
EndsOf(run) ==
    {<<run[1][1] - run[2][1], run[1][2] - run[2][2]>>,
     <<run[1][1] + 4 * run[2][1], run[1][2] + 4 * run[2][2]>>}

CellsOf(run) == {<<run[1][1] + k * run[2][1], run[1][2] + k * run[2][2]>> : k \in 0 .. 3}

EmptyCell(b, sq) == OnGrid(sq[1], sq[2]) /\ b[sq[1]][sq[2]] = NoPiece

\* The empty cells at an end of a run of four of `piece`.
OpenEnds(b, piece) ==
    {sq \in UNION {EndsOf(run) : run \in RunsOfFour(b, piece)} : EmptyCell(b, sq)}

\* C15: whenever the mover has four connected pieces in a line with an empty
\* cell at an end, whoever moved first and however many pieces are on the
\* board, findNextMove skips the search and returns an empty end cell of
\* that four with the score 200000000 for X, -200000000 for O.
C15_FourIsPlayedAtOnce ==
    (Searched /\ OpenEnds(pre.board, lastCall.turn) # {})
        => /\ lastCall.path = "quick"
           /\ ~lastCall.raised
           /\ <<lastCall.row, lastCall.col>> \in OpenEnds(pre.board, lastCall.turn)
           /\ lastCall.val = (IF lastCall.turn = "X" THEN Halves(200000000)
                                                     ELSE -Halves(200000000))

\* C16: on the empty board findNextMove returns the centre cell without
\* searching (no clock read, no table entry), and leaves the board empty,
\* the undo list empty and the hash at its initial value.
C16_EmptyBoardCentre ==
    (Searched /\ Occupied(pre.board) = {})
        => /\ lastCall.path = "empty"
           /\ ~lastCall.raised
           /\ lastCall.row = size \div 2
           /\ lastCall.col = size \div 2
           /\ lastCall.clock = 0
           /\ table = lastCall.tableBefore
           /\ board = EmptyBoard(size)
           /\ undoStack = <<>>
           /\ hashKey = emptyKey

C16_Witness ==
    /\ Searched
    /\ Occupied(pre.board) = {}
    /\ lastCall.turn = "O"
    /\ lastCall.row = 2
    /\ lastCall.col = 2
    /\ lastCall.val = -Halves(4)
    /\ board = EmptyBoard(size)

\* The calls of maxSearch and minSearch made by the findNextMove call that
\* has just ended.
Nodes == IF Searched THEN lastCall.log ELSE {}

\* C25: with a monotonic clock, no maxSearch or minSearch call at depth > 0
\* whose search the deadline cut short (a call below it returned the
\* deadline sentinel or was itself cut short, or its loop over the moves was
\* left because the deadline had passed) writes its result into the table:
\* every entry of depth > 0 written during the call comes from a search of
\* that node that ran to its end or to an alpha-beta cutoff before the
\* deadline. (The entry of depth 0 the killer-move check writes is not the
\* result of a search.)
C25_NoWriteAfterDeadline ==
    /\ \A n \in Nodes :
        /\ (n.depth > 0 /\ n.cut) => n.wrote = NoWrite
        /\ (n.depth > 0 /\ n.wrote # NoWrite /\ n.how # "killer")
               => (n.how = "searched" /\ ~n.cut /\ n.wrote.depth = n.depth)
    /\ Searched =>
           \A key \in DOMAIN table :
               (/\ table[key][1] > 0
                /\ key \in DOMAIN lastCall.tableBefore => lastCall.tableBefore[key] # table[key])
                   => \E n \in Nodes :
                          n.how = "searched" /\ ~n.cut /\ n.wrote.depth = table[key][1]

\* A search under a time limit: the first depth is answered by the entry an
\* earlier search wrote before its deadline, and at the second depth the
\* time is over while a node below the root has searched some of its moves;
\* the table gets no entry of depth 2.
C25_Witness ==
    /\ Searched
    /\ lastCall.deadline # NoDeadline
    /\ ~lastCall.raised
    /\ lastCall.completed = 1
    /\ \E n \in Nodes : n.depth > 0 /\ ~n.root /\ n.cut /\ ~n.direct /\ n.how = "searched"
    /\ \E n \in Nodes : n.depth = 1 /\ n.root /\ n.how = "reused"
    /\ \A key \in DOMAIN table : table[key][1] <= 1

\* C26: at every node of the search the candidate set handed to maxSearch
\* or minSearch is the set of the empty cells of the current board that have
\* an occupied cell among their 8 neighbours, as findNeighbourSquares()
\* would compute it afresh; hence every piece the search places, the move
\* taken from the table included, goes to an empty cell next to a piece.
C26_CandidatesAreNeighbourSquares ==
    \A n \in Nodes : n.fresh /\ n.legal

\* A search two plies deep that placed the move of the table first.
C26_Witness ==
    /\ Searched
    /\ \E n \in Nodes : n.depth = 2 /\ n.how = "searched" /\ n.known /\ ~n.direct /\ n.fresh
    /\ \E n \in Nodes : n.depth = 0 /\ ~n.root /\ n.how = "leaf" /\ n.legal /\ n.fresh

\* C27: findNextMove leaves the live grid as it found it: after the call
\* (centre of the empty board, quick win, search ended, entry of the table
\* returned at the root, deadline reached at any level of the recursion)
\* the board, the undo list and hashKey are those before the call; and at
\* every node of the search the grid is the position findNextMove was
\* called on plus the moves of the path to the node, and the node returns
\* the grid as it was handed over.
C27_GridLeftAsFound ==
    Searched =>
        /\ Grid = pre
        /\ \A n \in Nodes : n.onPath /\ n.restored

\* A search ended by the time limit two plies below the root, after the
\* first depth was searched to the end.
C27_Witness ==
    /\ Searched
    /\ lastCall.path = "search"
    /\ lastCall.completed = 1
    /\ ~lastCall.raised
    /\ Grid = pre
    /\ undoStack # <<>>
    /\ \E n \in Nodes : n.depth = 0 /\ n.how = "expired" /\ n.onPath
    /\ \E n \in Nodes : n.depth = 1 /\ ~n.root /\ n.cut /\ ~n.direct /\ n.restored

(***************************************************************************)
(* Claims about findQuickWin (checked under SpecQuick).                    *)
(***************************************************************************)
\* The entry of the undo list findQuickWin examines.
Examined == pre.undoStack[Len(pre.undoStack) - 1]

\* The empty cells at an end of a run of exactly four that holds the
\* examined piece.
ExaminedOpenEnds ==
    {sq \in UNION {EndsOf(run) : run \in {q \in RunsOfFour(pre.board, Examined[3]) :
                                            <<Examined[1], Examined[2]>> \in CellsOf(q)}} :
        EmptyCell(pre.board, sq)}

\* C17: when the examined piece (the second most recent entry of the undo
\* list) belongs to a run of exactly four in a row, column or diagonal with
\* an empty cell of the board directly beyond an end, findQuickWin returns
\* such a cell, in whatever order the four were placed; for (5,5), (5,6),
\* (5,7), (5,8) with (5,4) and (5,9) empty it returns (5,4) or (5,9).
C17_QuickWinFindsOpenEnd ==
    (lastCall.name = "findQuickWin" /\ ExaminedOpenEnds # {})
        => /\ lastCall.status
           /\ <<lastCall.row, lastCall.col>> \in ExaminedOpenEnds
           /\ (/\ \A c \in 5 .. 8 : pre.board[5][c] = Examined[3]
               /\ Examined[1] = 5
               /\ pre.board[5][4] = NoPiece
               /\ pre.board[5][9] = NoPiece)
                  => <<lastCall.row, lastCall.col>> \in {<<5, 4>>, <<5, 9>>}

\* The four of the right diagonal that ends at the edge, its last piece
\* placed first and examined, the far end taken by O.
C17_Witness ==
    /\ lastCall.name = "findQuickWin"
    /\ Examined = <<8, 2, "X">>
    /\ pre.undoStack[1] = <<5, 5, "X">>
    /\ \A k \in 0 .. 3 : pre.board[5 + k][5 - k] = "X"
    /\ pre.board[9][1] = "O"
    /\ lastCall.status
    /\ <<lastCall.row, lastCall.col>> = <<4, 6>>

\* The row of the example, with both ends empty.
C17_RowExample ==
    /\ lastCall.name = "findQuickWin"
    /\ \A c \in 5 .. 8 : pre.board[5][c] = "X"
    /\ Examined[1] = 5
    /\ pre.board[5][4] = NoPiece
    /\ pre.board[5][9] = NoPiece
    /\ lastCall.status

(***************************************************************************)
(* Claims about getHeuristicScore (checked under SpecHeuristic).           *)
(***************************************************************************)
\* The pieces of the row are those of `piece` only, and they form one run
\* of five or more.
OneLongRun(row, piece) ==
    LET cells == {i \in 1 .. Len(row) : row[i] = piece}
    IN  /\ \A i \in 1 .. Len(row) : row[i] \in {piece, NoPiece}
        /\ Cardinality(cells) >= 5
        /\ \A i, j \in cells : \A k \in i .. j : k \in cells

\* C22: getHeuristicScore caps the run length at the winning length: a
\* maximal run of five or more identical pieces (length 5, 6, ...) counts
\* with the weight of five in a row, 200000000, added for X and subtracted
\* for O, whatever number of its ends are blocked. Stated for the rows that
\* hold one such run and nothing else, whose score is that weight.
C22_LongRunCountsAsFive ==
    \A piece \in Pieces :
        (lastCall.name = "getHeuristicScore" /\ OneLongRun(lastCall.row, piece))
            => lastCall.result = (IF piece = "X" THEN Halves(200000000)
                                  ELSE -Halves(200000000))

(***************************************************************************)
(* Claims about selfHasFour (checked under SpecFour).                      *)
(***************************************************************************)
\* Some player has five pieces in a row, column or diagonal.
HasFive(b) ==
    \E r \in Rows(size), c \in Rows(size), d \in Directions :
        /\ b[r][c] # NoPiece
        /\ \A k \in 1 .. 4 :
            OnGrid(r + k * d[1], c + k * d[2]) /\ b[r + k * d[1]][c + k * d[2]] = b[r][c]

\* The player to move after the placements made so far.
Mover == Examined[3]

\* C29: in a position reached by alternate placements in which nobody has
\* five in a row, when selfHasFour() returns True, findQuickWin() returns a
\* move (not None): a cell of the board that is empty and lies directly
\* beyond an end of four connected pieces of the player to move, and placing
\* that player's piece there gives five in a row.
C29_FourHasAQuickWin ==
    (lastCall.name = "selfHasFour" /\ lastCall.result /\ ~HasFive(pre.board))
        => /\ lastCall.status
           /\ <<lastCall.row, lastCall.col>> \in OpenEnds(pre.board, Mover)
           /\ GridHasWinner(PlacePieceFn(pre, lastCall.row, lastCall.col, Mover))

\* Five pieces of X on the line, four of them connected with the examined
\* one among them, the fifth apart: the move fills the gap between them.
C29_Witness ==
    /\ lastCall.name = "selfHasFour"
    /\ lastCall.result
    /\ ~HasFive(pre.board)
    /\ Len(pre.undoStack) = 11
    /\ Cardinality(PiecesOf(pre.board, "X")) = 5
    /\ \E run \in RunsOfFour(pre.board, "X") :
        /\ <<Examined[1], Examined[2]>> \in CellsOf(run)
        /\ \E sq \in EndsOf(run) :
            /\ sq = <<lastCall.row, lastCall.col>>
            /\ <<2 * sq[1] - Examined[1], 2 * sq[2] - Examined[2]>> \in PiecesOf(pre.board, "X")
    /\ lastCall.status
    /\ GridHasWinner(PlacePieceFn(pre, lastCall.row, lastCall.col, "X"))

(***************************************************************************)
(* Claims about the transposition table at the search depth of main        *)
(* (checked under SpecDeep).                                               *)
(***************************************************************************)
\* The calls that reach the table lookup with an entry at least as deep as
\* the depth asked for: the deadline check and the killer-move check, which
\* come first, have let them through.
AtLookup(n) ==
    /\ n.depth > 0
    /\ n.entry >= n.depth
    /\ n.how \notin {"expired", "killer"}

\* C23 as stated: at remaining depth d > 0, an entry with recorded depth
\* >= d is returned directly, whatever move it records.
C23_EntryAlwaysReused ==
    \A n \in Nodes : AtLookup(n) => n.how = "reused"

\* C23: at remaining depth d > 0, once the deadline check and the
\* killer-move check have passed, an entry with recorded depth >= d whose
\* recorded move is one of the candidate cells is returned directly: the
\* stored evaluation (with the stored move at the root), no piece placed, no
\* successor searched, the table left alone. An entry whose recorded move is
\* not a candidate cell (the (None, None) of a call in which no move
\* improved on alpha or beta) is not returned: the call searches its moves.
C23_PlayableEntryReused ==
    \A n \in Nodes :
        AtLookup(n) =>
            /\ n.known => (n.how = "reused" /\ n.exact /\ n.direct /\ n.wrote = NoWrite)
            /\ ~n.known => n.how = "searched"

\* One search in which an entry is returned at the root and another, with
\* no playable move, is searched again below it.
C23_Witness ==
    /\ Searched
    /\ searchDepth = MainSearchDepth
    /\ \E n \in Nodes : AtLookup(n) /\ n.known /\ n.how = "reused" /\ n.root
    /\ \E n \in Nodes : AtLookup(n) /\ ~n.known /\ n.how = "searched" /\ ~n.root /\ ~n.direct

\* C24: no write to the table replaces an entry by one of smaller recorded
\* depth, and no search leaves a position with an entry of smaller recorded
\* depth than it had.
C24_DepthNeverDecreases ==
    /\ \A n \in Nodes : n.wrote # NoWrite => n.wrote.depth >= n.wrote.over
    /\ Searched =>
           \A key \in DOMAIN lastCall.tableBefore :
               key \in DOMAIN table /\ table[key][1] >= lastCall.tableBefore[key][1]

\* C24: the write at the end of a search never replaces an entry whose
\* recorded move is playable in the position (a candidate cell) by one of
\* smaller recorded depth, since such an entry is returned instead of
\* searched; it does replace an entry that records no playable move (the
\* (None, None) of a call in which no move improved on alpha or beta)
\* whatever depth that entry records, so the recorded depth of a hash can
\* decrease. The depth-0 leaf write is made only when the hash has no entry;
\* the killer-move write records depth 0 over whatever the hash has.
C24_OnlyUnplayableEntriesLoseDepth ==
    \A n \in Nodes :
        n.wrote # NoWrite =>
            /\ n.how \in {"leaf", "searched", "killer"}
            /\ n.how = "leaf" => (n.entry = -1 /\ n.wrote = [over |-> -1, depth |-> 0])
            /\ n.how = "killer" => n.wrote.depth = 0
            /\ n.how = "searched" =>
                   /\ n.wrote = [over |-> n.entry, depth |-> n.depth]
                   /\ n.wrote.over >= n.wrote.depth => ~n.known

\* A second search, called on a position the first one left with an entry
\* of depth 2 and no move, writes its depth-1 result over that entry.
C24_Witness ==
    /\ Searched
    /\ pre.hashKey \in DOMAIN lastCall.tableBefore
    /\ lastCall.tableBefore[pre.hashKey][1] = 2
    /\ lastCall.tableBefore[pre.hashKey][2] = NoMove
    /\ \E n \in Nodes :
        /\ n.root
        /\ n.how = "searched"
        /\ ~n.known
        /\ n.wrote = [over |-> 2, depth |-> 1]

====
